---- MODULE Spec2Model ----
(***************************************************************************)
(* Boomerang task server: the subtask lifecycle (SubtaskManager), the      *)
(* approval gate (ApprovalSystem), the three-tier priority queue           *)
(* (PriorityQueue) with its worker loop, and the results merger, over the  *)
(* file-backed Storage.                                                    *)
(*                                                                         *)
(* Storage keeps one JSON file per record: a load returns a private copy,  *)
(* a save overwrites the whole record.  Every handler is async; the code   *)
(* between two awaits runs without interruption (one JavaScript thread).   *)
(* A handler in flight is an element of the bag procs; it carries its      *)
(* private copies and the await it is parked on (pc).  A step of a handler *)
(* is: the awaited storage operation takes effect, then the handler runs   *)
(* up to its next await.                                                   *)
(***************************************************************************)
EXTENDS Integers, Sequences, FiniteSets, Bags, TLC

(***************************************************************************)
(* Bounds of the model.                                                    *)
(***************************************************************************)
NumSubtasks == 2        \* subtask ids 1..NumSubtasks
MaxProcs == 2           \* handlers in flight at once
MaxEnqueues == 2        \* enqueue calls made by clients, worker specification
MaxCapEnqueues == 3     \* enqueue calls made by clients, capacity specification
MaxPQEnqueues == 4      \* enqueue calls made by clients, queue specification
MaxApproveCalls == 1    \* autoApprove calls made by clients, approval specification
MaxNow == 2             \* readings of the clock: 0..MaxNow
NumApprovals == 2       \* approval ids 1..NumApprovals

(***************************************************************************)
(* Program constants and configuration.                                    *)
(***************************************************************************)
maxConcurrent == 1      \* BOOMERANG_MAX_CONCURRENT_TASKS as configured
DefaultMaxRetries == 3  \* options.maxRetries default of enqueue
Undefined == -1         \* a field the object does not have

SubIds == 1..NumSubtasks
ApprIds == 1..NumApprovals
Priorities == {"high", "medium", "low"}
PriorityOrder == <<"high", "medium", "low">>
ModeIds == {"orchestrator", "code", "architect", "debug", "test", "review", "docs"}
TaskTypes == {"design", "implementation", "testing", "deployment", "execution"}

VARIABLES
  tasks,            \* Storage: subtask id -> stored subtask record
  parent,           \* Storage: the stored parent task
  contexts,         \* Storage: subtask id -> stored context record
  approvals,        \* Storage: approval id -> stored approval request
  pendingApprovals, \* ApprovalSystem.pendingApprovals: subtask id -> approval id
  queues,           \* PriorityQueue.queues
  maxQueueSize,     \* PriorityQueue.maxQueueSize, set by the constructor
  stats,            \* PriorityQueue.stats.enqueued
  processingTasks,  \* SubtaskManager.processingTasks
  procs,            \* handlers in flight
  now,              \* Date.now()
  ret,              \* outcome of the step just taken
  calls,            \* client calls counted by a specification that bounds them
  cache,            \* TaskCache.cache, in insertion order
  parents,          \* Storage: the parent tasks saved by analyzeTask
  slaViolations,    \* PriorityQueue.stats.slaViolations
  activeProcesses   \* TaskExecutor.activeProcesses: the ids it holds

vars == <<tasks, parent, contexts, approvals, pendingApprovals, queues,
          maxQueueSize, stats, processingTasks, procs, now, ret, calls,
          cache, parents, slaViolations, activeProcesses>>

(***************************************************************************)
(* Records.                                                                *)
(***************************************************************************)
NoEst == [kind |-> "none", a |-> 0, b |-> 0]

\* results, summary and error are kept as flags: the field is set (non-null).
NoTask == [status |-> "none", approvalStatus |-> "none", requiresApproval |-> FALSE,
           mode |-> "none", ctxMode |-> "none", priority |-> "none",
           taskType |-> "none", est |-> NoEst, error |-> FALSE,
           hasResults |-> FALSE, hasSummary |-> FALSE]

NoCtx == [status |-> "none", mode |-> "none", hasResults |-> FALSE,
          hasSummary |-> FALSE, hasUpwardContext |-> FALSE,
          conversationHistory |-> <<>>]

NoAppr == [subtaskId |-> 0, status |-> "none", approvedBy |-> "none"]

NoQ == [id |-> 0, priority |-> "none", queuedAt |-> 0, sla |-> "none",
        retryOnFailure |-> FALSE, maxRetries |-> 0, retryCount |-> Undefined,
        executionMode |-> "none"]

NoRules == [maxImpact |-> "none", allowedModes |-> {}, maxEstimatedTime |-> 0,
            requiresManualReview |-> FALSE]

NoParent == [subtasks |-> <<>>, status |-> "none"]

\* createSubtask: the subtask record as built, before it is saved.
CreatedTask(mode, priority, taskType, est, requiresApproval) ==
  [status |-> "created", approvalStatus |-> "pending",
   requiresApproval |-> requiresApproval, mode |-> mode, ctxMode |-> mode,
   priority |-> priority, taskType |-> taskType, est |-> est, error |-> FALSE,
   hasResults |-> FALSE, hasSummary |-> FALSE]

\* ContextIsolation.createIsolatedContext: the context as built, with
\* results, summary and upwardContext null.
CreatedCtx(mode) ==
  [status |-> "pending", mode |-> mode, hasResults |-> FALSE,
   hasSummary |-> FALSE, hasUpwardContext |-> FALSE,
   conversationHistory |-> <<>>]

\* createSubtask: estimatedDuration defaults to '20-40 minutes'.
DefaultEst == [kind |-> "range", a |-> 20, b |-> 40]

\* A handler in flight: the await it is parked on and its private copies.
Proc(pc, op, id, q, sub, par, appr, aid, decision, rules) ==
  [pc |-> pc, op |-> op, id |-> id, q |-> q, sub |-> sub, par |-> par,
   appr |-> appr, aid |-> aid, decision |-> decision, rules |-> rules]

\* What the step just taken did: the operation, its id argument, whether it
\* returned (ok) or threw, the queue entry it returned or handled, and the
\* rules it was called with.
RetR(op, id, ok, val, rules) ==
  [op |-> op, id |-> id, ok |-> ok, val |-> val, rules |-> rules]

RetV(op, id, ok, val) == RetR(op, id, ok, val, NoRules)

Ret(op, id, ok) == RetV(op, id, ok, NoQ)

BagAdd(B, e) == B (+) SetToBag({e})
BagDel(B, e) == B (-) SetToBag({e})

RECURSIVE BagAddSeq(_, _)
BagAddSeq(B, s) == IF s = <<>> THEN B ELSE BagAddSeq(BagAdd(B, Head(s)), Tail(s))

\* A handler in flight takes its next step: the operation it awaits settles.
Step(Handler(_)) == \E p \in BagToSet(procs) : Handler(p)

(***************************************************************************)
(* PriorityQueue                                                           *)
(***************************************************************************)
getTotalSize(qs) == Len(qs["high"]) + Len(qs["medium"]) + Len(qs["low"])

\* The limit check off by one: a full queue takes one more entry.
QueueIsFullOffByOne(qs) == getTotalSize(qs) > maxQueueSize

\* enqueue: the limit check that throws 'Queue is full'.
QueueIsFull(qs) == getTotalSize(qs) >= maxQueueSize

\* enqueue: options = {retryOnFailure: true, maxRetries: 3, ...options}
DefaultOptions == [retryOnFailure |-> TRUE, maxRetries |-> DefaultMaxRetries]

\* enqueue: the queued task built from {...task, priority, queuedAt, sla, options}.
\* task carries id, executionMode and, when it is a retried entry, retryCount.
QueuedTask(task, priority, options, t) ==
  [id |-> task.id, priority |-> priority, queuedAt |-> t, sla |-> priority,
   retryOnFailure |-> options.retryOnFailure, maxRetries |-> options.maxRetries,
   retryCount |-> task.retryCount, executionMode |-> task.executionMode]

\* enqueue: this.queues[priority].push(queuedTask)
enqueue(qs, task, priority, options, t) ==
  [qs EXCEPT ![priority] = Append(@, QueuedTask(task, priority, options, t))]

\* The tiers visited in the order medium, high, low.
DequeueTierMediumFirst(qs) ==
  IF Len(qs["medium"]) > 0 THEN "medium"
  ELSE IF Len(qs["high"]) > 0 THEN "high"
  ELSE IF Len(qs["low"]) > 0 THEN "low"
  ELSE "none"

\* dequeue: the tier the for-loop over ['high','medium','low'] stops at.
DequeueTier(qs) ==
  IF Len(qs["high"]) > 0 THEN "high"
  ELSE IF Len(qs["medium"]) > 0 THEN "medium"
  ELSE IF Len(qs["low"]) > 0 THEN "low"
  ELSE "none"

\* dequeue: queue.shift()
DequeueItem(qs) == Head(qs[DequeueTier(qs)])

DequeueRest(qs) == [qs EXCEPT ![DequeueTier(qs)] = Tail(@)]

\* The constructor's slaConfig, in milliseconds.
slaConfig ==
  [high |-> [maxWaitTime |-> 30000, maxExecutionTime |-> 300000],
   medium |-> [maxWaitTime |-> 120000, maxExecutionTime |-> 600000],
   low |-> [maxWaitTime |-> 600000, maxExecutionTime |-> 1800000]]

\* dequeue: waitTime > task.sla.maxWaitTime, the SLA the item was tagged with.
WaitExceeded(task, t) == t - task.queuedAt > slaConfig[task.sla].maxWaitTime

\* dequeue: stats.slaViolations[priority]++ when the item taken at time t has
\* waited longer than its SLA allows.
dequeueViolations(sv, qs, t) ==
  IF WaitExceeded(DequeueItem(qs), t)
  THEN [sv EXCEPT ![DequeueTier(qs)] = @ + 1]
  ELSE sv

\* The entry is found and returned but the list keeps it.
removeTaskKeepsEntry(qs, taskId) == qs

\* removeTask: the tier of the first entry with this id, tiers searched in order.
TierOf(qs, taskId) ==
  IF \E i \in 1..Len(qs["high"]) : qs["high"][i].id = taskId THEN "high"
  ELSE IF \E i \in 1..Len(qs["medium"]) : qs["medium"][i].id = taskId THEN "medium"
  ELSE IF \E i \in 1..Len(qs["low"]) : qs["low"][i].id = taskId THEN "low"
  ELSE "none"

\* removeTask: queue.findIndex(t => t.id === taskId)
IndexOf(s, taskId) ==
  CHOOSE i \in 1..Len(s) :
    /\ s[i].id = taskId
    /\ \A j \in 1..(i - 1) : s[j].id # taskId

\* splice(index, 1)
RemoveAt(s, i) == [j \in 1..(Len(s) - 1) |-> IF j < i THEN s[j] ELSE s[j + 1]]

removeTask(qs, taskId) ==
  LET p == TierOf(qs, taskId)
  IN  [qs EXCEPT ![p] = RemoveAt(@, IndexOf(@, taskId))]

RemovedTask(qs, taskId) ==
  LET p == TierOf(qs, taskId)
  IN  qs[p][IndexOf(qs[p], taskId)]

\* The entry moved to the new tier with the SLA it was enqueued with.
changePriorityKeepsSla(qs, taskId, newPriority) ==
  [removeTask(qs, taskId) EXCEPT ![newPriority] =
     Append(@, [RemovedTask(qs, taskId) EXCEPT !.priority = newPriority])]

\* changePriority: the removed entry re-tagged and pushed on the new tier.
changePriority(qs, taskId, newPriority) ==
  LET removed == RemovedTask(qs, taskId)
      rest == removeTask(qs, taskId)
  IN  [rest EXCEPT ![newPriority] =
         Append(@, [removed EXCEPT !.priority = newPriority, !.sla = newPriority])]

EmptyQueues == [p \in Priorities |-> <<>>]

(***************************************************************************)
(* PriorityQueue: the public operations.                                   *)
(***************************************************************************)
\* What a caller hands to enqueue: {id, type, executionMode}, or an entry that
\* already counts its retries.
TaskArg(id, executionMode, retryCount) ==
  [NoQ EXCEPT !.id = id, !.executionMode = executionMode, !.retryCount = retryCount]

\* The options argument of enqueue, merged over the defaults.
OptionChoices ==
  { DefaultOptions,
    [DefaultOptions EXCEPT !.maxRetries = 2],
    [DefaultOptions EXCEPT !.retryOnFailure = FALSE] }

\* enqueue(task, priority, options)
Enqueue(task, priority, options) ==
  /\ calls' = calls + 1
  /\ IF QueueIsFull(queues)
     THEN /\ ret' = Ret("enqueue", 0, FALSE)
          /\ UNCHANGED <<queues, stats>>
     ELSE /\ queues' = enqueue(queues, task, priority, options, now)
          /\ stats' = [stats EXCEPT ![priority] = @ + 1]
          /\ ret' = Ret("enqueue", 0, TRUE)
  /\ UNCHANGED <<tasks, parent, contexts, approvals, pendingApprovals,
                 processingTasks, procs, now, maxQueueSize, cache, parents,
                 slaViolations, activeProcesses>>

\* A client of the queue enqueues an entry for real execution; rcs are the
\* retry counts the entry may arrive with (Undefined: the field is absent).
QueueEnqueue(ids, prs, opts, rcs) ==
  \E id \in ids, pr \in prs, o \in opts, rc \in rcs :
    Enqueue(TaskArg(id, "real", rc), pr, o)

\* SubtaskManager.enqueueSubtask(subtaskId, priority, executionMode)
EnqueueSubtask(ids, prs, modes) ==
  \E id \in ids, pr \in prs, m \in modes :
    IF tasks[id] = NoTask
    THEN /\ ret' = Ret("enqueueSubtask", 0, FALSE)
         /\ UNCHANGED <<tasks, parent, contexts, approvals, pendingApprovals,
                        queues, stats, processingTasks, procs, now, calls, maxQueueSize, cache, parents,
                        slaViolations, activeProcesses>>
    ELSE Enqueue(TaskArg(id, m, Undefined), pr, DefaultOptions)

\* dequeue()
Dequeue ==
  /\ IF DequeueTier(queues) = "none"
     THEN /\ ret' = Ret("dequeue", 0, TRUE)
          /\ UNCHANGED <<queues, slaViolations>>
     ELSE /\ ret' = RetV("dequeue", DequeueItem(queues).id, TRUE, DequeueItem(queues))
          /\ queues' = DequeueRest(queues)
          /\ slaViolations' = dequeueViolations(slaViolations, queues, now)
  /\ UNCHANGED <<tasks, parent, contexts, approvals, pendingApprovals, stats,
                 processingTasks, procs, now, calls, maxQueueSize, cache, parents,
                 activeProcesses>>

\* removeTask(taskId), SubtaskManager.cancelQueuedTask
RemoveTask(ids) ==
  \E id \in ids :
    /\ IF TierOf(queues, id) = "none"
       THEN /\ ret' = Ret("removeTask", id, FALSE)
            /\ UNCHANGED queues
       ELSE /\ ret' = RetV("removeTask", id, TRUE, RemovedTask(queues, id))
            /\ queues' = removeTask(queues, id)
    /\ UNCHANGED <<tasks, parent, contexts, approvals, pendingApprovals, stats,
                   processingTasks, procs, now, calls, maxQueueSize, cache, parents,
                   slaViolations, activeProcesses>>

\* changePriority(taskId, newPriority), SubtaskManager.changeTaskPriority
ChangePriority(ids, prs) ==
  \E id \in ids, pr \in prs :
    /\ IF TierOf(queues, id) = "none"
       THEN /\ ret' = Ret("changePriority", 0, FALSE)
            /\ UNCHANGED queues
       ELSE /\ ret' = Ret("changePriority", 0, TRUE)
            /\ queues' = changePriority(queues, id, pr)
    /\ UNCHANGED <<tasks, parent, contexts, approvals, pendingApprovals, stats,
                   processingTasks, procs, now, calls, maxQueueSize, cache, parents,
                   slaViolations, activeProcesses>>

\* Date.now() moves on.
AdvanceClock ==
  /\ now < MaxNow
  /\ now' = now + 1
  /\ ret' = Ret("clock", 0, TRUE)
  /\ UNCHANGED <<tasks, parent, contexts, approvals, pendingApprovals, queues,
                 stats, processingTasks, procs, calls, maxQueueSize, cache, parents,
                 slaViolations, activeProcesses>>

(***************************************************************************)
(* SubtaskManager: the worker loop, processQueuedTask and processSubtask.  *)
(***************************************************************************)
NoProcFields(pc, op, id, q, sub) ==
  Proc(pc, op, id, q, sub, NoParent, NoAppr, 0, "none", NoRules)

\* processQueuedTask(queuedTask) parked on its first await, storage.loadTask.
QueuedProc(q) == NoProcFields("loadTask", "processQueuedTask", q.id, q, NoTask)

RECURSIVE MapQueuedProc(_)
MapQueuedProc(s) ==
  IF s = <<>> THEN <<>> ELSE <<QueuedProc(Head(s))>> \o MapQueuedProc(Tail(s))

\* A loop that never finds the executing set full.
AlwaysHasCapacity(processing) == TRUE

\* startQueueProcessor: the condition of the while loop of one tick.
HasCapacity(processing) == Cardinality(processing) < maxConcurrent

\* startQueueProcessor: one tick.  The loop dequeues and starts
\* processQueuedTask, which runs to its first await and returns to the loop;
\* processingTasks is not touched before that await.  The result is the
\* queues left and the entries dispatched, in order.
RECURSIVE workerLoop(_, _, _, _)
workerLoop(qs, processing, started, sv) ==
  IF HasCapacity(processing) /\ DequeueTier(qs) # "none"
  THEN workerLoop(DequeueRest(qs), processing, Append(started, DequeueItem(qs)),
                  dequeueViolations(sv, qs, now))
  ELSE <<qs, started, sv>>

WorkerTick ==
  LET r == workerLoop(queues, processingTasks, <<>>, slaViolations)
  IN  /\ r[2] # <<>>
      /\ BagCardinality(procs) + Len(r[2]) <= MaxProcs
      /\ queues' = r[1]
      /\ slaViolations' = r[3]
      /\ procs' = BagAddSeq(procs, MapQueuedProc(r[2]))
      /\ ret' = Ret("tick", Len(r[2]), TRUE)
      /\ UNCHANGED <<tasks, parent, contexts, approvals, pendingApprovals, stats,
                     processingTasks, now, calls, maxQueueSize, cache, parents,
                     activeProcesses>>

\* processSubtask up to its first await: the id joins processingTasks and the
\* private copy becomes 'executing'.
BeginProcessSubtask(p, loaded) ==
  [p EXCEPT !.pc = "saveExecuting", !.sub = [loaded EXCEPT !.status = "executing"]]

\* processQueuedTask: loadTask returns; the SLA check only logs.
QueuedLoad(p) ==
  /\ p.pc = "loadTask" /\ p.op = "processQueuedTask"
  /\ IF tasks[p.id] = NoTask
     THEN /\ procs' = BagDel(procs, p)
          /\ ret' = Ret("processQueuedTask:notFound", 0, TRUE)
          /\ UNCHANGED processingTasks
     ELSE /\ procs' = BagAdd(BagDel(procs, p), BeginProcessSubtask(p, tasks[p.id]))
          /\ processingTasks' = processingTasks \cup {p.id}
          /\ ret' = Ret("processSubtask:begin", p.id, TRUE)
  /\ UNCHANGED <<tasks, parent, contexts, approvals, pendingApprovals, queues,
                 stats, now, calls, maxQueueSize, cache, parents,
                 slaViolations, activeProcesses>>

\* executeSubtask(subtaskId, executionMode): loadTask, then processSubtask.
ExecuteSubtask(ids, modes) ==
  \E id \in ids, m \in modes :
    /\ IF tasks[id] = NoTask
       THEN /\ ret' = Ret("executeSubtask", id, FALSE)
            /\ UNCHANGED <<procs, processingTasks>>
       ELSE /\ BagCardinality(procs) < MaxProcs
            /\ procs' = BagAdd(procs,
                 BeginProcessSubtask(
                   NoProcFields("loadTask", "executeSubtask", id,
                                TaskArg(id, m, Undefined), NoTask),
                   tasks[id]))
            /\ processingTasks' = processingTasks \cup {id}
            /\ ret' = Ret("processSubtask:begin", id, TRUE)
    /\ UNCHANGED <<tasks, parent, contexts, approvals, pendingApprovals, queues,
                   stats, now, calls, maxQueueSize, cache, parents,
                   slaViolations, activeProcesses>>

\* TaskExecutor.maxConcurrentTasks, read from the same environment variable
\* as the limit of the worker loop.
maxConcurrentTasks == maxConcurrent

\* The ceiling test of executeTask passing a full set.
AtCeilingOffByOne(active) == Cardinality(active) > maxConcurrentTasks

\* executeTask: activeProcesses.size >= maxConcurrentTasks
AtCeiling(active) == Cardinality(active) >= maxConcurrentTasks

\* The catch block that only re-throws: the copy is saved as it was.
FailedCopyAsItWas(p) == [p EXCEPT !.pc = "saveFailed"]

\* processSubtask, catch block: the copy becomes 'failed' with the message.
FailedCopy(p) ==
  [p EXCEPT !.pc = "saveFailed", !.sub.status = "failed", !.sub.error = TRUE]

\* processSubtask: saveTask of the 'executing' copy lands and executeTask is
\* called.  Simulation starts its timer.  In real mode a set at the ceiling
\* throws at once, into the catch block of processSubtask; otherwise the id
\* is set in activeProcesses and the strategy starts.
SaveExecuting(p) ==
  /\ p.pc = "saveExecuting"
  /\ tasks' = [tasks EXCEPT ![p.id] = p.sub]
  /\ IF p.q.executionMode = "simulation"
     THEN /\ procs' = BagAdd(BagDel(procs, p), [p EXCEPT !.pc = "executeTask"])
          /\ ret' = Ret("processSubtask:executing", p.id, TRUE)
          /\ UNCHANGED activeProcesses
     ELSE IF AtCeiling(activeProcesses)
     THEN /\ procs' = BagAdd(BagDel(procs, p), FailedCopy(p))
          /\ ret' = Ret("executeTask:ceiling", p.id, FALSE)
          /\ UNCHANGED activeProcesses
     ELSE /\ procs' = BagAdd(BagDel(procs, p), [p EXCEPT !.pc = "executeTask"])
          /\ activeProcesses' = activeProcesses \cup {p.id}
          /\ ret' = Ret("executeTask:admitted", p.id, TRUE)
  /\ UNCHANGED <<parent, contexts, approvals, pendingApprovals, queues, stats,
                 processingTasks, now, calls, maxQueueSize, cache, parents,
                 slaViolations>>

\* TaskExecutor.executeTask: simulation resolves; in real mode the strategy may
\* resolve or throw (a command outside the allow-list, a non-zero exit code).
ExecOutcomes(sub, executionMode) ==
  IF executionMode = "simulation" THEN {"ok"} ELSE {"ok", "throw"}

\* executeTask settles: in real mode the finally block deletes the id from
\* activeProcesses.  processSubtask then completes its copy with the results
\* and the generated summary, or fails it in the catch block.
ExecuteTask(p) ==
  /\ p.pc = "executeTask"
  /\ \E o \in ExecOutcomes(p.sub, p.q.executionMode) :
       /\ procs' = BagAdd(BagDel(procs, p),
            IF o = "ok"
            THEN [p EXCEPT !.pc = "saveCompleted", !.sub.status = "completed",
                           !.sub.hasResults = TRUE, !.sub.hasSummary = TRUE]
            ELSE FailedCopy(p))
       /\ ret' = RetV("processSubtask:executed", p.id, o = "ok", p.q)
  /\ activeProcesses' = IF p.q.executionMode = "simulation" THEN activeProcesses
                        ELSE activeProcesses \ {p.id}
  /\ UNCHANGED <<tasks, parent, contexts, approvals, pendingApprovals, queues,
                 stats, processingTasks, now, calls, maxQueueSize, cache, parents,
                 slaViolations>>

\* processSubtask: saveTask of the 'completed' copy lands; loadContext starts.
SaveCompleted(p) ==
  /\ p.pc = "saveCompleted"
  /\ tasks' = [tasks EXCEPT ![p.id] = p.sub]
  /\ procs' = BagAdd(BagDel(procs, p), [p EXCEPT !.pc = "saveContext"])
  /\ ret' = Ret("processSubtask:completed", p.id, TRUE)
  /\ UNCHANGED <<parent, contexts, approvals, pendingApprovals, queues, stats,
                 processingTasks, now, calls, maxQueueSize, cache, parents,
                 slaViolations, activeProcesses>>

\* processSubtask: the context is loaded, completed and saved; finally the id
\* leaves processingTasks.  A missing context throws into the catch block.
SaveContext(p) ==
  /\ p.pc = "saveContext"
  /\ IF contexts[p.id] = NoCtx
     THEN /\ procs' = BagAdd(BagDel(procs, p), FailedCopy(p))
          /\ ret' = Ret("processSubtask:noContext", p.id, FALSE)
          /\ UNCHANGED <<contexts, processingTasks>>
     ELSE /\ contexts' = [contexts EXCEPT ![p.id] =
                 [@ EXCEPT !.status = "completed", !.hasResults = TRUE,
                           !.hasSummary = TRUE]]
          /\ processingTasks' = processingTasks \ {p.id}
          /\ procs' = BagDel(procs, p)
          /\ ret' = Ret(p.op \o ":done", p.id, TRUE)
  /\ UNCHANGED <<tasks, parent, approvals, pendingApprovals, queues, stats, now,
                 calls, maxQueueSize, cache, parents,
                 slaViolations, activeProcesses>>

\* a < b in JavaScript when a may be undefined: undefined < n is false.
JsLess(a, b) == a # Undefined /\ a < b

\* processQueuedTask: the condition of the retry in its catch block.
RetryAllowed(q) == q.retryOnFailure /\ JsLess(q.retryCount, q.maxRetries)

\* processQueuedTask: queuedTask.retryCount = (queuedTask.retryCount || 0) + 1
Retried(q, t) ==
  [q EXCEPT !.retryCount = (IF @ = Undefined THEN 0 ELSE @) + 1, !.queuedAt = t]

\* processSubtask: saveTask of the 'failed' copy lands, finally the id leaves
\* processingTasks and the error is re-thrown: to the caller of executeSubtask,
\* or into the catch block of processQueuedTask, which may re-enqueue.
SaveFailed(p) ==
  /\ p.pc = "saveFailed"
  /\ tasks' = [tasks EXCEPT ![p.id] = p.sub]
  /\ processingTasks' = processingTasks \ {p.id}
  /\ procs' = BagDel(procs, p)
  /\ IF p.op = "processQueuedTask" /\ RetryAllowed(p.q)
     THEN IF QueueIsFull(queues)
          THEN /\ ret' = RetV("processQueuedTask:requeueFull", p.id, FALSE,
                              Retried(p.q, now))
               /\ UNCHANGED <<queues, stats>>
          ELSE /\ queues' = enqueue(queues, Retried(p.q, now), p.q.priority,
                                    DefaultOptions, now)
               /\ stats' = [stats EXCEPT ![p.q.priority] = @ + 1]
               /\ ret' = RetV("processQueuedTask:requeued", p.id, FALSE,
                              Retried(p.q, now))
     ELSE /\ ret' = RetV(p.op \o ":failed", p.id, FALSE, p.q)
          /\ UNCHANGED <<queues, stats>>
  /\ UNCHANGED <<parent, contexts, approvals, pendingApprovals, now, calls, maxQueueSize, cache, parents,
                 slaViolations, activeProcesses>>

(***************************************************************************)
(* ApprovalSystem                                                          *)
(***************************************************************************)
ImpactLevels == [low |-> 1, medium |-> 2, high |-> 3]

\* assessImpact: the score of the priority, the task type and the mode.
ImpactScore(sub) ==
  (CASE sub.priority = "high" -> 3
     [] sub.priority = "medium" -> 2
     [] sub.priority = "low" -> 1
     [] OTHER -> 0)
  + (CASE sub.taskType = "deployment" -> 3
       [] sub.taskType = "implementation" -> 2
       [] sub.taskType = "testing" -> 1
       [] sub.taskType = "design" -> 1
       [] OTHER -> 0)
  + (CASE sub.mode \in {"architect", "code"} -> 2
       [] sub.mode \in {"debug", "test", "review"} -> 1
       [] OTHER -> 0)

assessImpact(sub) ==
  IF ImpactScore(sub) <= 2 THEN "low"
  ELSE IF ImpactScore(sub) <= 4 THEN "medium"
  ELSE "high"

\* compareImpact(impact1, impact2)
compareImpact(impact1, impact2) == ImpactLevels[impact1] - ImpactLevels[impact2]

\* parseEstimatedTime, in half minutes (the midpoint of a range "a-b" is
\* (a + b) / 2): a range, a single number, or 30 when the string has no digits.
parseEstimatedTime(est) ==
  CASE est.kind = "range" -> est.a + est.b
    [] est.kind = "single" -> 2 * est.a
    [] OTHER -> 2 * 30

\* The rules evaluated without the limit on the estimated time.
evaluateWithoutTimeLimit(sub, impact, rules) ==
  /\ ~(compareImpact(impact, rules.maxImpact) > 0)
  /\ ~(sub.mode # "none" /\ sub.mode \notin rules.allowedModes)
  /\ ~rules.requiresManualReview

\* evaluateAutoApprovalRules: approved when no rule gives a reason against.
evaluateAutoApprovalRules(sub, impact, rules) ==
  /\ ~(compareImpact(impact, rules.maxImpact) > 0)
  /\ ~(sub.mode # "none" /\ sub.mode \notin rules.allowedModes)
  /\ ~(parseEstimatedTime(sub.est) > 2 * rules.maxEstimatedTime)
  /\ ~rules.requiresManualReview

\* autoApprove: {maxImpact: 'low', allowedModes: [...], maxEstimatedTime: 30,
\* requiresManualReview: false, ...rules}.  A field of NoRules is a field the
\* caller did not give.
autoApprovalRules(rules) ==
  [maxImpact |-> IF rules.maxImpact = "none" THEN "low" ELSE rules.maxImpact,
   allowedModes |-> IF rules.allowedModes = {} THEN {"code", "test", "docs"}
                    ELSE rules.allowedModes,
   maxEstimatedTime |-> IF rules.maxEstimatedTime = 0 THEN 30
                        ELSE rules.maxEstimatedTime,
   requiresManualReview |-> rules.requiresManualReview]

\* storage.generateId() for an approval request: an id not in use.
FreeApprIds ==
  {a \in ApprIds : /\ approvals[a] = NoAppr
                   /\ \A q \in BagToSet(procs) : q.aid # a}

NewApprId == CHOOSE a \in FreeApprIds : \A b \in FreeApprIds : a <= b

PendingAppr(subtaskId) ==
  [subtaskId |-> subtaskId, status |-> "pending", approvedBy |-> "none"]

\* autoApprove(subtaskId, rules): loadTask has returned.  The rules are
\* evaluated on the loaded subtask and requestApproval builds the pending
\* request (its own loadTask reads the same record for the metadata); the
\* handler parks on saveApprovalRequest.  rest is the handlers other than p.
AutoApproveLoaded(rest, p, subtaskId, rules) ==
  /\ IF tasks[subtaskId] = NoTask
     THEN /\ procs' = rest
          /\ ret' = Ret("autoApprove", subtaskId, FALSE)
     ELSE /\ FreeApprIds # {}
          /\ procs' = BagAdd(rest,
               [p EXCEPT !.pc = "saveApprovalRequest", !.id = subtaskId,
                         !.rules = autoApprovalRules(rules),
                         !.aid = NewApprId, !.appr = PendingAppr(subtaskId),
                         !.decision =
                           IF evaluateAutoApprovalRules(tasks[subtaskId],
                                assessImpact(tasks[subtaskId]),
                                autoApprovalRules(rules))
                           THEN "approved" ELSE "manual"])
          /\ ret' = Ret("autoApprove", subtaskId, TRUE)
  /\ UNCHANGED <<tasks, parent, contexts, approvals, pendingApprovals, queues,
                 maxQueueSize, cache, parents, stats, processingTasks, now,
                 slaViolations, activeProcesses>>

\* requestApproval: saveApprovalRequest lands and the request joins
\* pendingApprovals.  autoApprove then returns the pending request (manual
\* review) or calls processApproval, which parks on loadApprovalRequest.
SaveApprovalRequest(p) ==
  /\ p.pc = "saveApprovalRequest"
  /\ approvals' = [approvals EXCEPT ![p.aid] = p.appr]
  /\ pendingApprovals' = [pendingApprovals EXCEPT ![p.id] = p.aid]
  /\ IF p.decision = "approved"
     THEN /\ procs' = BagAdd(BagDel(procs, p), [p EXCEPT !.pc = "loadApprovalRequest"])
          /\ ret' = Ret("requestApproval", p.id, TRUE)
     ELSE /\ procs' = BagDel(procs, p)
          /\ ret' = RetR(p.op \o ":pending", p.id, TRUE, NoQ, p.rules)
  /\ UNCHANGED <<tasks, parent, contexts, queues, maxQueueSize, cache, parents, stats,
                 processingTasks, now, calls, slaViolations, activeProcesses>>

\* The check of processApproval taken away: any request may be decided.
AnyRequest(appr) == TRUE

\* processApproval: only a pending request may be decided.
IsPending(appr) == appr.status = "pending"

\* processApproval(approvalId, decision, approvedBy): loadApprovalRequest has
\* returned.  A missing or decided request throws; otherwise the private copy
\* takes the decision and the handler parks on saveApprovalRequest.
ProcessApprovalLoaded(rest, p, approvalId, decision, approvedBy) ==
  /\ IF approvals[approvalId] = NoAppr \/ ~IsPending(approvals[approvalId])
     THEN /\ procs' = rest
          /\ ret' = Ret("processApproval", approvalId, FALSE)
     ELSE /\ procs' = BagAdd(rest,
               [p EXCEPT !.pc = "saveApprovalDecision", !.aid = approvalId,
                         !.id = approvals[approvalId].subtaskId,
                         !.decision = decision,
                         !.appr = [approvals[approvalId] EXCEPT
                                     !.status = decision,
                                     !.approvedBy = approvedBy]])
          /\ ret' = Ret("processApproval", approvalId, TRUE)
  /\ UNCHANGED <<tasks, parent, contexts, approvals, pendingApprovals, queues,
                 maxQueueSize, cache, parents, stats, processingTasks, now, calls,
                 slaViolations, activeProcesses>>

\* A client calls processApproval(approvalId, decision, approvedBy).
ProcessApproval ==
  \E a \in ApprIds, d \in {"approved", "rejected"} :
    /\ BagCardinality(procs) < MaxProcs
    /\ ProcessApprovalLoaded(procs,
         Proc("call", "processApproval", 0, NoQ, NoTask, NoParent, NoAppr, 0,
              "none", NoRules),
         a, d, "manual")

\* autoApprove calls processApproval(approval.id, 'approved',
\* 'auto-approval-system'): loadApprovalRequest returns.
LoadApprovalRequest(p) ==
  /\ p.pc = "loadApprovalRequest"
  /\ ProcessApprovalLoaded(BagDel(procs, p), p, p.aid, "approved",
                           "auto-approval-system")

\* processApproval: saveApprovalRequest lands, the request leaves
\* pendingApprovals and the handler parks on loadTask of the subtask.
SaveApprovalDecision(p) ==
  /\ p.pc = "saveApprovalDecision"
  /\ approvals' = [approvals EXCEPT ![p.aid] = p.appr]
  /\ pendingApprovals' = [pendingApprovals EXCEPT ![p.appr.subtaskId] = 0]
  /\ procs' = BagAdd(BagDel(procs, p), [p EXCEPT !.pc = "approvalLoadTask"])
  /\ ret' = Ret("processApproval:saved", p.aid, TRUE)
  /\ UNCHANGED <<tasks, parent, contexts, queues, maxQueueSize, cache, parents, stats,
                 processingTasks, now, calls, slaViolations, activeProcesses>>

\* The name the caller of processApproval reports under when it returns.
ApprovalDone(p) ==
  IF p.op = "processApproval" THEN "processApproval:done" ELSE p.op \o ":approved"

\* processApproval: loadTask of the subtask returns; the private copy takes
\* approvalStatus and status.  A missing subtask is skipped.
ApprovalLoadTask(p) ==
  /\ p.pc = "approvalLoadTask"
  /\ IF tasks[p.id] = NoTask
     THEN /\ procs' = BagDel(procs, p)
          /\ ret' = RetR(ApprovalDone(p), p.id, TRUE, NoQ, p.rules)
     ELSE /\ procs' = BagAdd(BagDel(procs, p),
               [p EXCEPT !.pc = "approvalSaveTask",
                         !.sub = [tasks[p.id] EXCEPT
                                    !.approvalStatus = p.decision,
                                    !.status = IF p.decision = "approved"
                                               THEN "approved" ELSE "rejected"]])
          /\ ret' = Ret("processApproval:loaded", p.aid, TRUE)
  /\ UNCHANGED <<tasks, parent, contexts, approvals, pendingApprovals, queues,
                 maxQueueSize, cache, parents, stats, processingTasks, now, calls,
                 slaViolations, activeProcesses>>

\* processApproval: saveTask of the decided subtask lands and the call returns.
ApprovalSaveTask(p) ==
  /\ p.pc = "approvalSaveTask"
  /\ tasks' = [tasks EXCEPT ![p.id] = p.sub]
  /\ procs' = BagDel(procs, p)
  /\ ret' = RetR(ApprovalDone(p), p.id, TRUE, NoQ, p.rules)
  /\ UNCHANGED <<parent, contexts, approvals, pendingApprovals, queues,
                 maxQueueSize, cache, parents, stats, processingTasks, now, calls,
                 slaViolations, activeProcesses>>

\* A client calls autoApprove(subtaskId, rules).
AutoApprove(ids, ruleChoices) ==
  \E id \in ids, r \in ruleChoices :
    /\ BagCardinality(procs) < MaxProcs
    /\ calls' = calls + 1
    /\ AutoApproveLoaded(procs,
         Proc("call", "autoApprove", id, NoQ, NoTask, NoParent, NoAppr, 0,
              "none", NoRules),
         id, r)

(***************************************************************************)
(* SubtaskManager: createSubtask and changeSubtaskMode.                    *)
(***************************************************************************)
\* storage.generateId() for a subtask: an id not in use.
FreeSubIds ==
  {i \in SubIds : /\ tasks[i] = NoTask
                  /\ \A q \in BagToSet(procs) : ~(q.op = "createSubtask" /\ q.id = i)}

NewSubId == CHOOSE i \in FreeSubIds : \A j \in FreeSubIds : i <= j

\* The rules of createSubtask without the architect clause.
CreateRulesAsOptions(mode, options) ==
  [maxImpact |-> IF options.maxImpact # "none" THEN options.maxImpact
                 ELSE IF mode = "docs" THEN "high" ELSE "medium",
   allowedModes |-> IF options.allowedModes # {} THEN options.allowedModes
                    ELSE {"code", "test", "docs", "debug"},
   maxEstimatedTime |-> IF options.maxEstimatedTime # 0 THEN options.maxEstimatedTime
                        ELSE IF mode = "test" THEN 120 ELSE 60,
   requiresManualReview |-> options.requiresManualReview]

\* createSubtask: the auto-approval rules, options first and then the
\* defaults that depend on the mode.  A field of NoRules is an option the
\* caller did not give.
CreateRules(mode, options) ==
  [maxImpact |-> IF options.maxImpact # "none" THEN options.maxImpact
                 ELSE IF mode = "docs" THEN "high" ELSE "medium",
   allowedModes |-> IF options.allowedModes # {} THEN options.allowedModes
                    ELSE {"code", "test", "docs", "debug"},
   maxEstimatedTime |-> IF options.maxEstimatedTime # 0 THEN options.maxEstimatedTime
                        ELSE IF mode = "test" THEN 120 ELSE 60,
   requiresManualReview |-> options.requiresManualReview \/ mode = "architect"]

\* The check of createSubtask taken away: any loaded parent will do.
ParentNeverMissing(parentTask) == FALSE

\* createSubtask: if (!parentTask) throw 'Parent task ... not found'.
ParentMissing(parentTask) == parentTask = NoParent

\* createSubtask(parentTaskId, subtaskConfig, contextToPass, options):
\* loadTask of the parent has returned; the subtask is built with a new id
\* and the handler parks on saveTask.
CreateSubtask(modes, prs, types, ests, reqs, optionChoices) ==
  \E m \in modes, pr \in prs, ty \in types, e \in ests, rq \in reqs,
     o \in optionChoices :
    /\ IF ParentMissing(parent)
       THEN /\ ret' = Ret("createSubtask", 0, FALSE)
            /\ UNCHANGED procs
       ELSE /\ FreeSubIds # {}
            /\ BagCardinality(procs) < MaxProcs
            /\ procs' = BagAdd(procs,
                 Proc("createSaveTask", "createSubtask", NewSubId, NoQ,
                      CreatedTask(m, pr, ty, e, rq), parent, NoAppr, 0, "none",
                      CreateRules(m, o)))
            /\ ret' = Ret("createSubtask:begin", NewSubId, TRUE)
    /\ UNCHANGED <<tasks, parent, contexts, approvals, pendingApprovals, queues,
                   maxQueueSize, cache, parents, stats, processingTasks, now, calls,
                   slaViolations, activeProcesses>>

\* createSubtask: saveTask of the subtask lands.
CreateSaveTask(p) ==
  /\ p.pc = "createSaveTask"
  /\ tasks' = [tasks EXCEPT ![p.id] = p.sub]
  /\ procs' = BagAdd(BagDel(procs, p), [p EXCEPT !.pc = "createSaveContext"])
  /\ ret' = Ret("createSubtask:saved", p.id, TRUE)
  /\ UNCHANGED <<parent, contexts, approvals, pendingApprovals, queues,
                 maxQueueSize, cache, parents, stats, processingTasks, now, calls,
                 slaViolations, activeProcesses>>

\* createSubtask: saveContext lands; the id is pushed on the private copy of
\* the parent and the handler parks on saveTask of the parent.
CreateSaveContext(p) ==
  /\ p.pc = "createSaveContext"
  /\ contexts' = [contexts EXCEPT ![p.id] = CreatedCtx(p.sub.ctxMode)]
  /\ procs' = BagAdd(BagDel(procs, p),
       [p EXCEPT !.pc = "createSaveParent",
                 !.par.subtasks = Append(@, p.id)])
  /\ ret' = Ret("createSubtask:context", p.id, TRUE)
  /\ UNCHANGED <<tasks, parent, approvals, pendingApprovals, queues,
                 maxQueueSize, cache, parents, stats, processingTasks, now, calls,
                 slaViolations, activeProcesses>>

\* createSubtask: saveTask of the parent lands.  The call returns, or, when
\* the subtask requires approval, autoApprove parks on its loadTask.
CreateSaveParent(p) ==
  /\ p.pc = "createSaveParent"
  /\ parent' = p.par
  /\ IF p.sub.requiresApproval
     THEN /\ procs' = BagAdd(BagDel(procs, p), [p EXCEPT !.pc = "autoApproveLoad"])
          /\ ret' = Ret("createSubtask:parent", p.id, TRUE)
     ELSE /\ procs' = BagDel(procs, p)
          /\ ret' = Ret("createSubtask", p.id, TRUE)
  /\ UNCHANGED <<tasks, contexts, approvals, pendingApprovals, queues,
                 maxQueueSize, cache, parents, stats, processingTasks, now, calls,
                 slaViolations, activeProcesses>>

\* createSubtask: approvalSystem.autoApprove(subtask.id, autoApprovalRules),
\* its loadTask returns.
AutoApproveLoad(p) ==
  /\ p.pc = "autoApproveLoad"
  /\ AutoApproveLoaded(BagDel(procs, p), p, p.id, p.rules)
  /\ UNCHANGED calls

\* The check of changeSubtaskMode that also lets an executing subtask through.
CanChangeModeWhileExecuting(status) == status \in {"created", "approved", "executing"}

\* changeSubtaskMode: the statuses whose mode may be changed.
CanChangeMode(status) == status = "created" \/ status = "approved"

\* changeSubtaskMode(subtaskId, newModeId): loadTask has returned.  A missing
\* subtask or a status past approval throws; otherwise the private copy takes
\* the new mode, also in its embedded context, and the handler parks on
\* saveTask.
ChangeSubtaskMode(ids, modes) ==
  \E id \in ids, m \in modes :
    /\ IF tasks[id] = NoTask \/ ~CanChangeMode(tasks[id].status)
       THEN /\ ret' = Ret("changeSubtaskMode", id, FALSE)
            /\ UNCHANGED procs
       ELSE /\ BagCardinality(procs) < MaxProcs
            /\ procs' = BagAdd(procs,
                 NoProcFields("changeSaveTask", "changeSubtaskMode", id, NoQ,
                              [tasks[id] EXCEPT !.mode = m, !.ctxMode = m]))
            /\ ret' = Ret("changeSubtaskMode", id, TRUE)
    /\ UNCHANGED <<tasks, parent, contexts, approvals, pendingApprovals, queues,
                   maxQueueSize, cache, parents, stats, processingTasks, now, calls,
                   slaViolations, activeProcesses>>

\* changeSubtaskMode: saveTask lands.
ChangeSaveTask(p) ==
  /\ p.pc = "changeSaveTask"
  /\ tasks' = [tasks EXCEPT ![p.id] = p.sub]
  /\ procs' = BagAdd(BagDel(procs, p), [p EXCEPT !.pc = "changeSaveContext"])
  /\ ret' = Ret("changeSubtaskMode:saved", p.id, TRUE)
  /\ UNCHANGED <<parent, contexts, approvals, pendingApprovals, queues,
                 maxQueueSize, cache, parents, stats, processingTasks, now, calls,
                 slaViolations, activeProcesses>>

\* changeSubtaskMode: saveContext of the context embedded in the subtask
\* record (the context as created, with the new mode) lands; the call returns.
ChangeSaveContext(p) ==
  /\ p.pc = "changeSaveContext"
  /\ contexts' = [contexts EXCEPT ![p.id] = CreatedCtx(p.sub.ctxMode)]
  /\ procs' = BagDel(procs, p)
  /\ ret' = Ret("changeSubtaskMode:done", p.id, TRUE)
  /\ UNCHANGED <<tasks, parent, approvals, pendingApprovals, queues,
                 maxQueueSize, cache, parents, stats, processingTasks, now, calls,
                 slaViolations, activeProcesses>>

(***************************************************************************)
(* ResultsMerger                                                           *)
(***************************************************************************)
\* The filter of mergeSubtaskResults without its status test: every subtask
\* that loads is kept.
IsLoaded(subtask) == subtask # NoTask

\* mergeSubtaskResults: the loaded subtasks that are kept as results.
IsCompleted(subtask) == subtask # NoTask /\ subtask.status = "completed"

\* generateFinalSummary(parentTask, subtaskResults, mergedResults): the
\* completion ratio 'completedCount/totalCount' and overallSuccess, with
\* subtaskResults the number of subtasks kept.
generateFinalSummary(parentTask, subtaskResults) ==
  [completionStatus |-> <<subtaskResults, Len(parentTask.subtasks)>>,
   overallSuccess |-> subtaskResults = Len(parentTask.subtasks)]

\* mergeSubtaskResults(parentTaskId): loadTask of the parent has returned;
\* the handler parks on loadTask of the first subtask of its copy, or, with no
\* subtasks, on saveTask of the parent.  It carries the number of subtasks it
\* has loaded and the number of those that were 'completed'.
MergeSubtaskResults ==
  /\ IF parent = NoParent
     THEN /\ ret' = Ret("mergeSubtaskResults", 0, FALSE)
          /\ UNCHANGED procs
     ELSE /\ BagCardinality(procs) < MaxProcs
          /\ procs' = BagAdd(procs,
               Proc(IF parent.subtasks = <<>> THEN "mergeSaveParent"
                    ELSE "mergeLoadSubtasks",
                    "mergeSubtaskResults", 0, NoQ, NoTask, parent, NoAppr, 0,
                    "none", NoRules)
                 @@ [loaded |-> 0, subtaskResults |-> 0])
          /\ ret' = Ret("mergeSubtaskResults:begin", 0, TRUE)
  /\ UNCHANGED <<tasks, parent, contexts, approvals, pendingApprovals, queues,
                 maxQueueSize, cache, parents, stats, processingTasks, now, calls,
                 slaViolations, activeProcesses>>

\* mergeSubtaskResults: loadTask of the next subtask of the copy returns; a
\* 'completed' subtask is kept.  After the last one the results are combined,
\* the copy becomes 'completed' and the handler parks on saveTask.
MergeLoadSubtasks(p) ==
  /\ p.pc = "mergeLoadSubtasks"
  /\ LET subtask == tasks[p.par.subtasks[p.loaded + 1]]
     IN  procs' = BagAdd(BagDel(procs, p),
           [p EXCEPT !.loaded = @ + 1,
                     !.subtaskResults =
                        IF IsCompleted(subtask) THEN @ + 1 ELSE @,
                     !.pc = IF p.loaded + 1 = Len(p.par.subtasks)
                            THEN "mergeSaveParent" ELSE @])
  /\ ret' = Ret("mergeSubtaskResults:loaded", 0, TRUE)
  /\ UNCHANGED <<tasks, parent, contexts, approvals, pendingApprovals, queues,
                 maxQueueSize, cache, parents, stats, processingTasks, now, calls,
                 slaViolations, activeProcesses>>

\* mergeSubtaskResults: saveTask of the parent copy lands; the call returns
\* the final summary.
MergeSaveParent(p) ==
  /\ p.pc = "mergeSaveParent"
  /\ parent' = [p.par EXCEPT !.status = "completed"]
  /\ procs' = BagDel(procs, p)
  /\ ret' = RetV("mergeSubtaskResults", 0, TRUE,
                 generateFinalSummary(p.par, p.subtaskResults))
  /\ UNCHANGED <<tasks, contexts, approvals, pendingApprovals, queues,
                 maxQueueSize, cache, parents, stats, processingTasks, now, calls,
                 slaViolations, activeProcesses>>

(***************************************************************************)
(* The queue with the worker loop as the only dispatcher: subtasks exist   *)
(* (created without approval), clients enqueue, cancel and re-prioritise.  *)
(***************************************************************************)
InitQueue(cap) ==
  /\ tasks = [i \in SubIds |-> CreatedTask("code", "medium", "implementation",
                                           DefaultEst, FALSE)]
  /\ parent = [subtasks |-> [i \in SubIds |-> i], status |-> "analyzed"]
  /\ contexts = [i \in SubIds |-> CreatedCtx("code")]
  /\ approvals = [a \in ApprIds |-> NoAppr]
  /\ pendingApprovals = [i \in SubIds |-> 0]
  /\ queues = EmptyQueues
  /\ maxQueueSize = cap
  /\ cache = <<>>
  /\ parents = <<>>
  /\ slaViolations = [p \in Priorities |-> 0]
  /\ activeProcesses = {}
  /\ stats = [p \in Priorities |-> 0]
  /\ processingTasks = {}
  /\ procs = EmptyBag
  /\ now = 0
  /\ ret = Ret("init", 0, TRUE)
  /\ calls = 0

ExecModes == {"simulation", "real"}

\* The worker loop as the only dispatcher; clients enqueue through
\* enqueueSubtask or hand the queue an entry with options of their own.
InitWorker == InitQueue(2)

WorkerEnqueue ==
  /\ calls < MaxEnqueues
  /\ \/ EnqueueSubtask(SubIds, {"high", "low"}, ExecModes)
     \/ QueueEnqueue(SubIds, {"medium"},
                     {[DefaultOptions EXCEPT !.maxRetries = 2],
                      [DefaultOptions EXCEPT !.retryOnFailure = FALSE]}, {0})

NextWorker ==
  \/ WorkerEnqueue
  \/ WorkerTick
  \/ Step(QueuedLoad)
  \/ Step(SaveExecuting)
  \/ Step(ExecuteTask)
  \/ Step(SaveCompleted)
  \/ Step(SaveContext)
  \/ Step(SaveFailed)

SpecWorker == InitWorker /\ [][NextWorker]_vars

\* The capacity of the queue under every operation that adds entries or
\* moves them: enqueue, the retry of a failed entry, removeTask,
\* changePriority, and the worker loop's dequeue.
InitCap == InitQueue(2)

CapEnqueue ==
  /\ calls < MaxCapEnqueues
  /\ QueueEnqueue({1}, {"high", "low"}, {DefaultOptions}, {DefaultMaxRetries - 1})

\* The worker's timer fires once the handlers of the previous tick are done.
CapTick ==
  /\ procs = EmptyBag
  /\ WorkerTick

NextCap ==
  \/ CapEnqueue
  \/ RemoveTask({1})
  \/ ChangePriority({1}, {"high", "low"})
  \/ CapTick
  \/ Step(QueuedLoad)
  \/ Step(SaveExecuting)
  \/ Step(ExecuteTask)
  \/ Step(SaveCompleted)
  \/ Step(SaveContext)
  \/ Step(SaveFailed)

SpecCap == InitCap /\ [][NextCap]_vars

\* The PriorityQueue class on its own, called by a client: enqueue, dequeue,
\* removeTask and changePriority while the clock runs.
InitPQ == InitQueue(4)

PQEnqueue ==
  /\ calls < MaxPQEnqueues
  /\ QueueEnqueue({1}, Priorities, {DefaultOptions}, {Undefined})

NextPQ ==
  \/ PQEnqueue
  \/ Dequeue
  \/ RemoveTask({1})
  \/ ChangePriority({1}, Priorities)
  \/ AdvanceClock

SpecPQ == InitPQ /\ [][NextPQ]_vars

(***************************************************************************)
(* The lifecycle of subtasks: clients create subtasks under the parent,    *)
(* decide approval requests, change modes and execute subtasks directly.   *)
(***************************************************************************)
InitLife ==
  /\ tasks = [i \in SubIds |-> NoTask]
  /\ parent = [subtasks |-> <<>>, status |-> "analyzed"]
  /\ contexts = [i \in SubIds |-> NoCtx]
  /\ approvals = [a \in ApprIds |-> NoAppr]
  /\ pendingApprovals = [i \in SubIds |-> 0]
  /\ queues = EmptyQueues
  /\ maxQueueSize = 2
  /\ cache = <<>>
  /\ parents = <<>>
  /\ slaViolations = [p \in Priorities |-> 0]
  /\ activeProcesses = {}
  /\ stats = [p \in Priorities |-> 0]
  /\ processingTasks = {}
  /\ procs = EmptyBag
  /\ now = 0
  /\ ret = Ret("init", 0, TRUE)
  /\ calls = 0

\* Subtask 1 was created in architect mode and waits for manual review of
\* its approval request 1; subtask 2 was created in code mode with
\* requiresApproval false.  Clients decide requests, execute subtasks and
\* change modes.
InitStored ==
  /\ tasks = [i \in SubIds |->
                IF i = 1 THEN CreatedTask("architect", "low", "testing", DefaultEst, TRUE)
                ELSE IF i = 2 THEN CreatedTask("code", "low", "testing", DefaultEst, FALSE)
                ELSE NoTask]
  /\ parent = [subtasks |-> <<1, 2>>, status |-> "analyzed"]
  /\ contexts = [i \in SubIds |->
                   IF i = 1 THEN CreatedCtx("architect")
                   ELSE IF i = 2 THEN CreatedCtx("code")
                   ELSE NoCtx]
  /\ approvals = [a \in ApprIds |-> IF a = 1 THEN PendingAppr(1) ELSE NoAppr]
  /\ pendingApprovals = [i \in SubIds |-> IF i = 1 THEN 1 ELSE 0]
  /\ queues = EmptyQueues
  /\ maxQueueSize = 2
  /\ cache = <<>>
  /\ parents = <<>>
  /\ slaViolations = [p \in Priorities |-> 0]
  /\ activeProcesses = {}
  /\ stats = [p \in Priorities |-> 0]
  /\ processingTasks = {}
  /\ procs = EmptyBag
  /\ now = 0
  /\ ret = Ret("init", 0, TRUE)
  /\ calls = 0

NextLife ==
  \/ ProcessApproval
  \/ ExecuteSubtask({1}, {"real"})
  \/ Step(SaveApprovalDecision)
  \/ Step(ApprovalLoadTask)
  \/ Step(ApprovalSaveTask)
  \/ Step(SaveExecuting)
  \/ Step(ExecuteTask)
  \/ Step(SaveCompleted)
  \/ Step(SaveContext)
  \/ Step(SaveFailed)

SpecLife == InitStored /\ [][NextLife]_vars

\* The request of subtask 1 has been decided, either way; subtask 2 needs no
\* approval.  Clients change the mode of subtasks while subtask 2 is executed.
InitMode ==
  /\ \E d \in {"approved", "rejected"} :
       /\ tasks = [i \in SubIds |->
                     IF i = 1
                     THEN [CreatedTask("architect", "low", "testing", DefaultEst, TRUE)
                             EXCEPT !.status = d, !.approvalStatus = d]
                     ELSE IF i = 2
                     THEN CreatedTask("code", "low", "testing", DefaultEst, FALSE)
                     ELSE NoTask]
       /\ approvals = [a \in ApprIds |->
                         IF a = 1 THEN [PendingAppr(1) EXCEPT !.status = d,
                                                              !.approvedBy = "manual"]
                         ELSE NoAppr]
  /\ parent = [subtasks |-> <<1, 2>>, status |-> "analyzed"]
  /\ contexts = [i \in SubIds |->
                   IF i = 1 THEN CreatedCtx("architect")
                   ELSE IF i = 2 THEN CreatedCtx("code")
                   ELSE NoCtx]
  /\ pendingApprovals = [i \in SubIds |-> 0]
  /\ queues = EmptyQueues
  /\ maxQueueSize = 2
  /\ cache = <<>>
  /\ parents = <<>>
  /\ slaViolations = [p \in Priorities |-> 0]
  /\ activeProcesses = {}
  /\ stats = [p \in Priorities |-> 0]
  /\ processingTasks = {}
  /\ procs = EmptyBag
  /\ now = 0
  /\ ret = Ret("init", 0, TRUE)
  /\ calls = 0

NextMode ==
  \/ ChangeSubtaskMode(SubIds, {"docs"})
  \/ ExecuteSubtask({2}, {"real"})
  \/ Step(ChangeSaveTask)
  \/ Step(ChangeSaveContext)
  \/ Step(SaveExecuting)
  \/ Step(ExecuteTask)
  \/ Step(SaveCompleted)
  \/ Step(SaveContext)
  \/ Step(SaveFailed)

SpecMode == InitMode /\ [][NextMode]_vars

\* The parent's list of subtasks while createSubtask and mergeSubtaskResults
\* calls overlap.
ParentCreate ==
  CreateSubtask({"code"}, {"low"}, {"testing"}, {DefaultEst}, {TRUE, FALSE},
                {NoRules})

NextParent ==
  \/ ParentCreate
  \/ MergeSubtaskResults
  \/ Step(CreateSaveTask)
  \/ Step(CreateSaveContext)
  \/ Step(CreateSaveParent)
  \/ Step(AutoApproveLoad)
  \/ Step(SaveApprovalRequest)
  \/ Step(LoadApprovalRequest)
  \/ Step(SaveApprovalDecision)
  \/ Step(ApprovalLoadTask)
  \/ Step(ApprovalSaveTask)
  \/ Step(MergeLoadSubtasks)
  \/ Step(MergeSaveParent)

SpecParent == InitLife /\ [][NextParent]_vars

\* autoApprove called by a client on a stored subtask (created with
\* requiresApproval false, so no request exists yet) under rules of the
\* client's choice.
ApproveModes == {"code", "architect", "docs", "test"}
ApproveTypes == {"deployment", "testing", "execution"}
ApproveEsts == {DefaultEst, [kind |-> "single", a |-> 45, b |-> 0],
                [kind |-> "range", a |-> 45, b |-> 80]}

ApproveRules ==
  [maxImpact : {"none", "medium", "high"},
   allowedModes : {{}, {"code", "architect"}},
   maxEstimatedTime : {30, 62},
   requiresManualReview : BOOLEAN]

InitApprove ==
  /\ \E m \in ApproveModes, pr \in Priorities, ty \in ApproveTypes,
        e \in ApproveEsts :
       tasks = [i \in SubIds |-> IF i = 1 THEN CreatedTask(m, pr, ty, e, FALSE)
                                 ELSE NoTask]
  /\ parent = [subtasks |-> <<1>>, status |-> "analyzed"]
  /\ contexts = [i \in SubIds |-> IF i = 1 THEN CreatedCtx(tasks[1].mode) ELSE NoCtx]
  /\ approvals = [a \in ApprIds |-> NoAppr]
  /\ pendingApprovals = [i \in SubIds |-> 0]
  /\ queues = EmptyQueues
  /\ maxQueueSize = 2
  /\ cache = <<>>
  /\ parents = <<>>
  /\ slaViolations = [p \in Priorities |-> 0]
  /\ activeProcesses = {}
  /\ stats = [p \in Priorities |-> 0]
  /\ processingTasks = {}
  /\ procs = EmptyBag
  /\ now = 0
  /\ ret = Ret("init", 0, TRUE)
  /\ calls = 0

ApproveCall ==
  /\ calls < MaxApproveCalls
  /\ AutoApprove({1}, ApproveRules)

NextApprove ==
  \/ ApproveCall
  \/ Step(SaveApprovalRequest)
  \/ Step(LoadApprovalRequest)
  \/ Step(SaveApprovalDecision)
  \/ Step(ApprovalLoadTask)
  \/ Step(ApprovalSaveTask)

SpecApprove == InitApprove /\ [][NextApprove]_vars

(***************************************************************************)
(* C1: with the worker loop as dispatcher and a concurrency limit K, the   *)
(* executing set (processingTasks) never holds more than K ids.            *)
(***************************************************************************)
C1_ConcurrencyBound == Cardinality(processingTasks) <= maxConcurrent

(***************************************************************************)
(* C2: an entry queued with retryOnFailure whose execution fails every     *)
(* time is given up (failed for good, not re-enqueued) only after exactly  *)
(* maxRetries retries, and its subtask is then stored as failed.  An entry *)
(* that reaches its final failure has failed on every attempt, and         *)
(* retryCount counts the re-enqueues it went through.                      *)
(***************************************************************************)
RetriesOf(q) == IF q.retryCount = Undefined THEN 0 ELSE q.retryCount

C2_RetryBound ==
  (ret.op = "processQueuedTask:failed" /\ ret.val.retryOnFailure)
    => /\ RetriesOf(ret.val) = ret.val.maxRetries
       /\ tasks[ret.id].status = "failed"

(***************************************************************************)
(* C3: a subtask created with requiresApproval = true moves to executing   *)
(* only when its stored status is approved; a rejected subtask, or one     *)
(* whose request is still pending, is never executed.                      *)
(***************************************************************************)
C3_ApprovalGate ==
  [][\A i \in SubIds :
       (/\ tasks[i].requiresApproval
        /\ tasks[i].status # "executing"
        /\ tasks'[i].status = "executing")
         => tasks[i].status = "approved"]_vars

(***************************************************************************)
(* C4: every change of a subtask's stored status follows an edge of the    *)
(* lifecycle machine: created to approved or rejected, created or approved *)
(* to executing, executing to completed or failed.  Completed, failed and  *)
(* rejected have no outgoing edge and no edge leads back.                  *)
(***************************************************************************)
LifecycleEdges ==
  { <<"none", "created">>,
    <<"created", "approved">>, <<"created", "rejected">>,
    <<"created", "executing">>, <<"approved", "executing">>,
    <<"executing", "completed">>, <<"executing", "failed">> }

C4_LifecycleEdges ==
  [][\A i \in SubIds :
       tasks'[i].status # tasks[i].status
         => <<tasks[i].status, tasks'[i].status>> \in LifecycleEdges]_vars

(***************************************************************************)
(* C5: a processApproval call on an approval request whose stored status   *)
(* is approved or rejected throws, and leaves the stored request and the   *)
(* stored subtasks as they were; no handler is left that would write.      *)
(***************************************************************************)
C5_DecidedOnce ==
  [][(/\ ret'.op = "processApproval"
      /\ approvals[ret'.id].status \in {"approved", "rejected"})
       => /\ ~ret'.ok
          /\ approvals' = approvals
          /\ tasks' = tasks
          /\ procs' \sqsubseteq procs]_vars

\* processApproval has been refused on a request that is already decided.
C5_Witness ==
  /\ ret.op = "processApproval"
  /\ ~ret.ok
  /\ approvals[ret.id].status \in {"approved", "rejected"}

(***************************************************************************)
(* C6: dequeue returns the oldest-enqueued item (least queuedAt) of the    *)
(* highest-priority non-empty tier and removes it, and returns null only   *)
(* when all three tiers are empty.                                         *)
(***************************************************************************)
HighestNonEmpty(qs) ==
  IF \A i \in 1..3 : qs[PriorityOrder[i]] = <<>> THEN "none"
  ELSE PriorityOrder[CHOOSE i \in 1..3 :
         /\ qs[PriorityOrder[i]] # <<>>
         /\ \A j \in 1..(i - 1) : qs[PriorityOrder[j]] = <<>>]

EnqueueAttempts ==
  {"enqueue", "processQueuedTask:requeued", "processQueuedTask:requeueFull"}

C8_QueueCap ==
  /\ [](getTotalSize(queues) <= maxQueueSize)
  /\ [][(getTotalSize(queues) = maxQueueSize /\ ret'.op \in EnqueueAttempts)
          => /\ ret'.op # "processQueuedTask:requeued"
             /\ ~ret'.ok
             /\ queues' = queues
             /\ stats' = stats]_vars

\* A client's enqueue has been refused on a full queue.
C8_Witness ==
  /\ ret.op = "enqueue"
  /\ ~ret.ok
  /\ getTotalSize(queues) = maxQueueSize

\* The retry of a failed entry has been refused on a full queue.
C8_WitnessRetry ==
  /\ ret.op = "processQueuedTask:requeueFull"
  /\ getTotalSize(queues) = maxQueueSize

(***************************************************************************)
(* C7: while createSubtask and mergeSubtaskResults calls overlap, the      *)
(* parent's stored subtasks list only grows (each stored value has the     *)
(* previous one as a prefix) and holds the id of every subtask whose       *)
(* createSubtask has returned.                                             *)
(***************************************************************************)
IsPrefix(s, t) == Len(s) <= Len(t) /\ \A i \in 1..Len(s) : s[i] = t[i]

CreateReturned(i) ==
  /\ tasks[i] # NoTask
  /\ \A q \in BagToSet(procs) : ~(q.op = "createSubtask" /\ q.id = i)

C7_SubtasksGrow ==
  /\ [](\A i \in SubIds :
          CreateReturned(i) => \E k \in 1..Len(parent.subtasks) : parent.subtasks[k] = i)
  /\ [][IsPrefix(parent.subtasks, parent'.subtasks)]_vars

(***************************************************************************)
(* C9: changeSubtaskMode succeeds only when the stored status of the       *)
(* subtask is created or approved; when it is executing, completed, failed *)
(* or rejected the call throws and leaves the stored subtasks and contexts *)
(* as they were, with no handler left that would write.                    *)
(***************************************************************************)
C9_ModeChangeGate ==
  [][ret'.op = "changeSubtaskMode"
       => /\ ret'.ok => tasks[ret'.id].status \in {"created", "approved"}
          /\ tasks[ret'.id].status \in {"executing", "completed", "failed", "rejected"}
               => /\ ~ret'.ok
                  /\ tasks' = tasks
                  /\ contexts' = contexts
                  /\ procs' = procs]_vars

\* changeSubtaskMode has been refused on an executing subtask.
C9_Witness ==
  /\ ret.op = "changeSubtaskMode"
  /\ ~ret.ok
  /\ tasks[ret.id].status = "executing"

(***************************************************************************)
(* C10: autoApprove approves the subtask if and only if its impact is at   *)
(* most rules.maxImpact, its mode is in rules.allowedModes, its parsed     *)
(* estimated duration is at most rules.maxEstimatedTime and                *)
(* rules.requiresManualReview is false; otherwise it returns having added  *)
(* exactly one pending request and changed no subtask.                     *)
(***************************************************************************)
AutoApprovable(sub, rules) ==
  /\ ImpactLevels[assessImpact(sub)] <= ImpactLevels[rules.maxImpact]
  /\ sub.mode \in rules.allowedModes
  /\ parseEstimatedTime(sub.est) <= 2 * rules.maxEstimatedTime
  /\ rules.requiresManualReview = FALSE

C10_AutoApproveIff ==
  [][/\ ret'.op = "autoApprove:approved"
          => /\ AutoApprovable(tasks[ret'.id], ret'.rules)
             /\ tasks'[ret'.id].status = "approved"
             /\ tasks'[ret'.id].approvalStatus = "approved"
     /\ ret'.op = "autoApprove:pending"
          => /\ ~AutoApprovable(tasks[ret'.id], ret'.rules)
             /\ tasks' = tasks
             /\ \E a \in ApprIds :
                  /\ approvals[a] = NoAppr
                  /\ approvals' = [approvals EXCEPT ![a] = PendingAppr(ret'.id)]]_vars

\* autoApprove has approved a subtask whose estimate is a range.
C10_Witness ==
  /\ ret.op = "autoApprove:approved"
  /\ tasks[ret.id].status = "approved"
  /\ tasks[ret.id].est.kind = "range"

\* autoApprove has left a request pending because the midpoint of the
\* estimate, 62.5 minutes, is above a limit of 62.
C10_WitnessPending ==
  /\ ret.op = "autoApprove:pending"
  /\ tasks[ret.id].est = [kind |-> "range", a |-> 45, b |-> 80]
  /\ ret.rules.maxEstimatedTime = 62
  /\ evaluateWithoutTimeLimit(tasks[ret.id], assessImpact(tasks[ret.id]), ret.rules)

(***************************************************************************)
(* C11: removeTask on an id that has an entry in the queue returns that    *)
(* entry and takes exactly it out of the tiers, and the worker loop        *)
(* dispatches only entries it finds in the tiers, so a removed entry is    *)
(* never dispatched.  removeTask on an id with no entry in the queue (its  *)
(* entry was dequeued) returns null.  Either way the handlers in flight,   *)
(* the stored subtasks and the executing set are left as they were.        *)
(***************************************************************************)
InQueue(qs, q) == \E t \in Priorities : \E i \in 1..Len(qs[t]) : qs[t][i] = q

HasEntry(qs, taskId) ==
  \E t \in Priorities : \E i \in 1..Len(qs[t]) : qs[t][i].id = taskId

C11_CancelQueued ==
  [][/\ ret'.op = "removeTask"
          => /\ IF HasEntry(queues, ret'.id)
                THEN /\ ret'.ok
                     /\ ret'.val.id = ret'.id
                     /\ \E t \in Priorities : \E i \in 1..Len(queues[t]) :
                          /\ queues[t][i] = ret'.val
                          /\ queues' = [queues EXCEPT ![t] = RemoveAt(@, i)]
                ELSE ~ret'.ok /\ queues' = queues
             /\ UNCHANGED <<procs, tasks, contexts, processingTasks>>
     /\ ret'.op = "tick"
          => /\ getTotalSize(queues') = getTotalSize(queues) - ret'.id
             /\ \A p \in BagToSet(procs') :
                  CopiesIn(p, procs') > CopiesIn(p, procs)
                    => InQueue(queues, p.q) /\ ~InQueue(queues', p.q)]_vars

\* removeTask has returned null for an id whose entry was dispatched and is
\* being processed.
C11_Witness ==
  /\ ret.op = "removeTask"
  /\ ~ret.ok
  /\ \E p \in BagToSet(procs) : p.op = "processQueuedTask" /\ p.id = ret.id

\* removeTask has taken an entry out of the queue.
C11_WitnessRemoved ==
  /\ ret.op = "removeTask"
  /\ ret.ok
  /\ ~InQueue(queues, ret.val)

(***************************************************************************)
(* Strings and objects.  A string is the sequence of its characters; an    *)
(* object is the sequence of its entries in insertion order, each a key    *)
(* with a value that is a string, a number or an object.                   *)
(***************************************************************************)
\* The characters of the model in the order of their UTF-16 code units.
Alphabet ==
  <<" ", ",", ".", "A", "B", "C", "D", "E", "F", "G", "H", "I", "J", "K", "L",
    "M", "N", "O", "P", "Q", "R", "S", "T", "U", "V", "W", "X", "Y", "Z", "_",
    "a", "b", "c", "d", "e", "f", "g", "h", "i", "j", "k", "l", "m", "n", "o",
    "p", "q", "r", "s", "t", "u", "v", "w", "x", "y", "z">>

\* String.prototype.charCodeAt, as the rank among the characters of the model
CharCodes == [ch \in {Alphabet[i] : i \in 1..Len(Alphabet)} |->
                CHOOSE i \in 1..Len(Alphabet) : Alphabet[i] = ch]

charCodeAt(ch) == CharCodes[ch]

\* String.prototype.toLowerCase
LowerCase == [ch \in DOMAIN CharCodes |->
                IF CharCodes[ch] \in CharCodes["A"]..CharCodes["Z"]
                THEN Alphabet[CharCodes[ch] + (CharCodes["a"] - CharCodes["A"])]
                ELSE ch]

toLowerCaseChar(ch) == LowerCase[ch]

toLowerCase(s) == [i \in 1..Len(s) |-> toLowerCaseChar(s[i])]

\* String.prototype.trim
RECURSIVE trimStart(_)
trimStart(s) ==
  IF s # <<>> /\ Head(s) = " " THEN trimStart(Tail(s)) ELSE s

RECURSIVE trimEnd(_)
trimEnd(s) ==
  IF s # <<>> /\ s[Len(s)] = " " THEN trimEnd(SubSeq(s, 1, Len(s) - 1)) ELSE s

trim(s) == trimEnd(trimStart(s))

\* String.prototype.includes
includes(s, w) == \E i \in 0..(Len(s) - Len(w)) : SubSeq(s, i + 1, i + Len(w)) = w

\* The order Array.prototype.sort puts strings in: by code unit.
RECURSIVE stringLess(_, _)
stringLess(a, b) ==
  IF b = <<>> THEN FALSE
  ELSE IF a = <<>> THEN TRUE
  ELSE IF Head(a) # Head(b) THEN charCodeAt(Head(a)) < charCodeAt(Head(b))
  ELSE stringLess(Tail(a), Tail(b))

RECURSIVE insertKey(_, _)
insertKey(ks, k) ==
  IF ks = <<>> THEN <<k>>
  ELSE IF stringLess(k, Head(ks)) THEN <<k>> \o ks
  ELSE <<Head(ks)>> \o insertKey(Tail(ks), k)

\* Object.keys(context).sort()
RECURSIVE sortKeys(_)
sortKeys(ks) == IF ks = <<>> THEN <<>> ELSE insertKey(sortKeys(Tail(ks)), Head(ks))

Str(s) == [type |-> "string", string |-> s]
Num(n) == [type |-> "number", number |-> n]
Obj(entries) == [type |-> "object", entries |-> entries]
Entry(key, value) == [key |-> key, value |-> value]

ObjectKeys(o) == [i \in 1..Len(o) |-> o[i].key]
ValueOf(o, key) == o[CHOOSE i \in 1..Len(o) : o[i].key = key].value

(***************************************************************************)
(* TaskCache                                                               *)
(***************************************************************************)
ttl == 1                \* options.ttl as configured, in readings of the clock
maxSize == 1000         \* options.maxSize default
cacheEnabled == TRUE    \* options.enabled default

\* normalizeContext: the keys sorted, string values trimmed and lower-cased;
\* the keys themselves are kept as they are.
normalizeContext(context) ==
  LET ks == sortKeys(ObjectKeys(context))
  IN  [i \in 1..Len(ks) |->
         Entry(ks[i],
               IF ValueOf(context, ks[i]).type = "string"
               THEN Str(toLowerCase(trim(ValueOf(context, ks[i]).string)))
               ELSE ValueOf(context, ks[i]))]

\* createCacheKey: the digest of the normalised description and context.  The
\* digest is taken as free of collisions: it stands for the data it hashes.
createCacheKey(taskDescription, projectContext) ==
  [description |-> toLowerCase(trim(taskDescription)),
   context |-> normalizeContext(projectContext)]

CacheIndex(c, key) ==
  IF \E i \in 1..Len(c) : c[i].key = key
  THEN CHOOSE i \in 1..Len(c) : c[i].key = key
  ELSE 0

\* The TTL check with the bound excluded: an entry expires one reading early.
ExpiredAtBound(cached, t) == t >= cached.expiresAt

\* get: the TTL check, Date.now() > cached.expiresAt.
Expired(cached, t) == t > cached.expiresAt

NoParentTask ==
  [id |-> 0, description |-> <<>>, projectContext |-> <<>>,
   analysis |-> [complexity |-> 0, shouldBreakDown |-> FALSE,
                 suggestedSubtasks |-> <<>>],
   subtasks |-> <<>>, status |-> "none", createdAt |-> 0]

\* get(taskDescription, projectContext): a miss, an expired entry deleted, or
\* a hit that refreshes accessedAt and returns a copy of the data.
cacheGet(c, key, t) ==
  LET i == CacheIndex(c, key)
  IN  IF ~cacheEnabled \/ i = 0
      THEN [hit |-> FALSE, data |-> NoParentTask, cache |-> c]
      ELSE IF Expired(c[i], t)
      THEN [hit |-> FALSE, data |-> NoParentTask, cache |-> RemoveAt(c, i)]
      ELSE [hit |-> TRUE, data |-> c[i].data,
            cache |-> [c EXCEPT ![i].accessedAt = t]]

\* evictLRU: the first entry of the least accessedAt below Date.now() goes.
evictLRU(c, t) ==
  LET older == {i \in 1..Len(c) : c[i].accessedAt < t}
  IN  IF older = {} THEN c
      ELSE RemoveAt(c, CHOOSE i \in older : \A j \in older :
                         \/ c[i].accessedAt < c[j].accessedAt
                         \/ c[i].accessedAt = c[j].accessedAt /\ i <= j)

\* set(taskDescription, projectContext, taskData)
cacheSet(c, key, taskData, t) ==
  LET cached == [key |-> key, data |-> taskData, createdAt |-> t,
                 accessedAt |-> t, expiresAt |-> t + ttl]
      c1 == IF Len(c) >= maxSize /\ CacheIndex(c, key) = 0
            THEN evictLRU(c, t) ELSE c
  IN  IF ~cacheEnabled THEN c
      ELSE IF CacheIndex(c1, key) = 0 THEN Append(c1, cached)
      ELSE [c1 EXCEPT ![CacheIndex(c1, key)] = cached]

(***************************************************************************)
(* Orchestrator                                                            *)
(***************************************************************************)
KeywordImplement == <<"i", "m", "p", "l", "e", "m", "e", "n", "t">>
KeywordCreate == <<"c", "r", "e", "a", "t", "e">>
KeywordBuild == <<"b", "u", "i", "l", "d">>
KeywordDesign == <<"d", "e", "s", "i", "g", "n">>
KeywordRefactor == <<"r", "e", "f", "a", "c", "t", "o", "r">>
KeywordTest == <<"t", "e", "s", "t">>
KeywordDeploy == <<"d", "e", "p", "l", "o", "y">>

keywords ==
  {KeywordImplement, KeywordCreate, KeywordBuild, KeywordDesign,
   KeywordRefactor, KeywordTest, KeywordDeploy}

Least(a, b) == IF a < b THEN a ELSE b

\* assessComplexity(description).score
assessComplexity(description) ==
  LET lower == toLowerCase(description)
      keywordCount == Cardinality({k \in keywords : includes(lower, k)})
  IN  Least(1 + (IF Len(description) > 200 THEN 1 ELSE 0)
              + Least(keywordCount, 3)
              + (IF \/ includes(description, <<" ", "a", "n", "d", " ">>)
                    \/ includes(description, <<",">>)
                 THEN 1 ELSE 0)
              + (IF \/ includes(lower, <<"f", "i", "l", "e">>)
                    \/ includes(lower, <<"c", "o", "m", "p", "o", "n", "e",
                                         "n",
                                         "t">>)
                 THEN 1 ELSE 0),
            10)

\* suggestSubtasks with the keyword families taken away.
suggestExecutionOnly(description) == <<"execution">>

\* suggestSubtasks: the types of the suggested subtasks, in order.
suggestSubtasks(description) ==
  LET desc == toLowerCase(description)
      found ==
        (IF includes(desc, KeywordImplement) \/ includes(desc, KeywordCreate)
         THEN <<"design", "implementation">> ELSE <<>>)
        \o (IF includes(desc, KeywordTest) THEN <<"testing">> ELSE <<>>)
        \o (IF includes(desc, KeywordDeploy) \/ includes(desc, KeywordBuild)
            THEN <<"deployment">> ELSE <<>>)
  IN  IF found = <<>> THEN <<"execution">> ELSE found

\* The score test of the earlier Orchestrator file (its breakDownTask): a
\* score below 3 is simple.
SimpleBelowThree(score) == score < 3

\* breakDownTask, the score test: only score 1 is simple.
SimpleScoreOne(score) == score = 1

\* breakDownTask(description, projectContext).  The repository holds two
\* Orchestrator files; this is the later one, which the tests of score 1 and
\* of score 2 and the server's getTaskProgress handler go with.
breakDownTask(description) ==
  LET complexity == assessComplexity(description)
  IN  IF SimpleScoreOne(complexity)
      THEN [complexity |-> complexity, shouldBreakDown |-> FALSE,
            suggestedSubtasks |-> <<>>]
      ELSE [complexity |-> complexity, shouldBreakDown |-> TRUE,
            suggestedSubtasks |-> suggestSubtasks(description)]

\* analyzeTask calls in flight.
Analyzing == {p \in BagToSet(procs) : p.op = "analyzeTask"}

\* storage.generateId(): an id no parent task has.
NewParentId == Len(parents) + Cardinality(Analyzing) + 1

\* What analyzeTask was called with and the task it returned.
Analyzed(description, projectContext, task) ==
  [description |-> description, projectContext |-> projectContext, task |-> task]

\* analyzeTask(description, projectContext), cacheTaskAnalysis: a hit returns
\* the cached task; on a miss the analysis is made, the parent task is built
\* and the handler parks on saveTask.
AnalyzeTask(descriptions, projectContexts) ==
  \E description \in descriptions, projectContext \in projectContexts :
    LET cached == cacheGet(cache, createCacheKey(description, projectContext), now)
        task == [id |-> NewParentId, description |-> description,
                 projectContext |-> projectContext,
                 analysis |-> breakDownTask(description),
                 subtasks |-> <<>>, status |-> "analyzed", createdAt |-> now]
    IN  /\ calls' = calls + 1
        /\ cache' = cached.cache
        /\ IF cached.hit
           THEN /\ ret' = RetV("analyzeTask", cached.data.id, TRUE,
                               Analyzed(description, projectContext, cached.data))
                /\ UNCHANGED procs
           ELSE /\ BagCardinality(procs) < MaxProcs
                /\ procs' = BagAdd(procs,
                     Proc("analyzeSaveTask", "analyzeTask", task.id, NoQ, NoTask,
                          task, NoAppr, 0, "none", NoRules))
                /\ ret' = RetV("analyzeTask:miss", task.id, TRUE,
                               Analyzed(description, projectContext, task))
        /\ UNCHANGED <<tasks, parent, contexts, approvals, pendingApprovals,
                       queues, maxQueueSize, stats, processingTasks, now, parents,
                       slaViolations, activeProcesses>>

\* analyzeTask: saveTask lands; cacheTaskAnalysis puts the task in the cache
\* and the call returns it.
AnalyzeSaveTask(p) ==
  /\ p.pc = "analyzeSaveTask"
  /\ parents' = Append(parents, p.par)
  /\ cache' = cacheSet(cache,
                       createCacheKey(p.par.description, p.par.projectContext),
                       p.par, now)
  /\ procs' = BagDel(procs, p)
  /\ ret' = RetV("analyzeTask", p.id, TRUE,
                 Analyzed(p.par.description, p.par.projectContext, p.par))
  /\ UNCHANGED <<tasks, parent, contexts, approvals, pendingApprovals, queues,
                 maxQueueSize, stats, processingTasks, now, calls,
                 slaViolations, activeProcesses>>

(***************************************************************************)
(* The analysis cache: clients call analyzeTask one call after the other   *)
(* while the clock moves on.                                               *)
(***************************************************************************)
MaxAnalyzeCalls == 2    \* analyzeTask calls made by clients

FixTypo == <<"F", "i", "x", " ", "t", "y", "p", "o">>
FixTypoPadded == <<" ", "F", "I", "X", " ", "t", "y", "p", "o", " ">>
TestIt == <<"T", "e", "s", "t", " ", "i", "t">>
UpdateVersion == <<"U", "p", "d", "a", "t", "e", " ", "v", "e", "r", "s",
                   "i", "o", "n", " ", "n", "u", "m", "b",
                   "e", "r", " ", "a", "n", "d", " ", "c",
                   "r", "e", "a", "t", "e", " ", "c", "h",
                   "a", "n", "g", "e", "l", "o", "g">>

KeyFramework == <<"f", "r", "a", "m", "e", "w", "o", "r", "k">>
KeyFrameworkCapital == <<"F", "r", "a", "m", "e", "w", "o", "r", "k">>
KeyDatabase == <<"d", "a", "t", "a", "b", "a", "s", "e">>

CtxEmpty == <<>>
CtxNode == <<Entry(KeyFramework, Str(<<"N", "o", "d", "e">>)), Entry(KeyDatabase, Num(1))>>
CtxNodeReordered == <<Entry(KeyDatabase, Num(1)), Entry(KeyFramework, Str(<<
                                                                            "N",
                                                                            "o",
                                                                            "d",
                                                                            "e">>))>>
CtxNodeLower == <<Entry(KeyFramework, Str(<<"n", "o", "d", "e", " ">>)), Entry(KeyDatabase, Num(1))>>
CtxNodeCapitalKey ==
  <<Entry(KeyFrameworkCapital, Str(<<"N", "o", "d", "e">>)), Entry(KeyDatabase, Num(1))>>

CacheDescriptions == {FixTypo, FixTypoPadded, TestIt}
CacheContexts == {CtxEmpty, CtxNode, CtxNodeReordered, CtxNodeLower, CtxNodeCapitalKey}

\* The state after construction: nothing stored, nothing cached.
InitEmpty ==
  /\ tasks = [i \in SubIds |-> NoTask]
  /\ parent = NoParent
  /\ contexts = [i \in SubIds |-> NoCtx]
  /\ approvals = [a \in ApprIds |-> NoAppr]
  /\ pendingApprovals = [i \in SubIds |-> 0]
  /\ queues = EmptyQueues
  /\ maxQueueSize = 2
  /\ cache = <<>>
  /\ parents = <<>>
  /\ slaViolations = [p \in Priorities |-> 0]
  /\ activeProcesses = {}
  /\ stats = [p \in Priorities |-> 0]
  /\ processingTasks = {}
  /\ procs = EmptyBag
  /\ now = 0
  /\ ret = Ret("init", 0, TRUE)
  /\ calls = 0

AnalyzeCall ==
  /\ calls < MaxAnalyzeCalls
  /\ Analyzing = {}
  /\ AnalyzeTask(CacheDescriptions, CacheContexts)

NextAnalyze ==
  \/ AnalyzeCall
  \/ Step(AnalyzeSaveTask)
  \/ AdvanceClock

SpecAnalyze == InitEmpty /\ [][NextAnalyze]_vars

(***************************************************************************)
(* C12: of analyzeTask calls that do not overlap and whose descriptions    *)
(* and contexts normalise to the same fingerprint, only the first made     *)
(* within the cache TTL persists a parent task: no two persisted parent    *)
(* tasks of one fingerprint are created within one TTL, and a call made    *)
(* within the TTL of a persisted parent task of its fingerprint returns    *)
(* that task's id and saves nothing.                                       *)
(***************************************************************************)
SameFingerprint(task, description, projectContext) ==
  createCacheKey(task.description, task.projectContext)
    = createCacheKey(description, projectContext)

WithinTTL(task, t) == t <= task.createdAt + ttl

C12_CachedAnalysis ==
  /\ [](\A i, j \in 1..Len(parents) :
          (i < j /\ SameFingerprint(parents[i], parents[j].description,
                                    parents[j].projectContext))
            => ~WithinTTL(parents[i], parents[j].createdAt))
  /\ [][\A i \in 1..Len(parents) :
          (/\ calls' = calls + 1
           /\ SameFingerprint(parents[i], ret'.val.description,
                              ret'.val.projectContext)
           /\ WithinTTL(parents[i], now))
            => /\ ret'.op = "analyzeTask"
               /\ ret'.id = parents[i].id
               /\ UNCHANGED <<parents, procs>>]_vars

C12_Witness ==
  /\ ret.op = "analyzeTask"
  /\ calls = 2
  /\ Len(parents) = 1
  /\ ret.id = parents[1].id
  /\ ret.val.description # parents[1].description
  /\ procs = EmptyBag

(***************************************************************************)
(* C13: two analyzeTask calls with the same description whose contexts     *)
(* differ only in the order of their keys or in the letter case of their   *)
(* keys return the same cached id: a call made within the TTL of a         *)
(* persisted parent task with its description and such a context returns   *)
(* that task's id.                                                         *)
(***************************************************************************)
LowerKeys(context) ==
  {Entry(toLowerCase(context[i].key), context[i].value) : i \in 1..Len(context)}

SameUpToKeys(c1, c2) == Len(c1) = Len(c2) /\ LowerKeys(c1) = LowerKeys(c2)

C13_KeyOrderAndCase ==
  [][\A i \in 1..Len(parents) :
       (/\ calls' = calls + 1
        /\ parents[i].description = ret'.val.description
        /\ SameUpToKeys(parents[i].projectContext, ret'.val.projectContext)
        /\ WithinTTL(parents[i], now))
         => ret'.op = "analyzeTask" /\ ret'.id = parents[i].id]_vars

(***************************************************************************)
(* ContextIsolation.sanitizePassedData                                     *)
(***************************************************************************)
sensitiveKeys ==
  {<<"p", "a", "s", "s", "w", "o", "r", "d">>,
   <<"a", "p", "i", "K", "e", "y">>,
   <<"s", "e", "c", "r", "e", "t">>,
   <<"t", "o", "k", "e", "n">>,
   <<"c", "r", "e", "d", "e", "n", "t", "i", "a", "l", "s">>}

REDACTED == Str(<<"[", "R", "E", "D", "A", "C", "T", "E", "D", "]">>)

\* sensitiveKeys.some(sensitive => key.toLowerCase().includes(sensitive))
IsSensitiveKey(key) == \E sensitive \in sensitiveKeys : includes(toLowerCase(key), sensitive)

\* sanitizeObject(obj): a sensitive key takes the marker, an object under any
\* other key is sanitized in turn, every other value stays.
RECURSIVE sanitizeObject(_)
sanitizeObject(obj) ==
  [i \in 1..Len(obj) |->
     IF IsSensitiveKey(obj[i].key) THEN Entry(obj[i].key, REDACTED)
     ELSE IF obj[i].value.type = "object"
     THEN Entry(obj[i].key, Obj(sanitizeObject(obj[i].value.entries)))
     ELSE obj[i]]

sanitizePassedData(passedData) == sanitizeObject(passedData)

\* createDownwardContext(parentContext, passedData) with a parent:
\* explicitData is the passedData object itself, as sanitizePassedData left it.
\* sanitizePassedData works on a shallow copy, so the top-level properties of
\* the object keep their values, while the objects under its other
\* properties are the ones sanitizeObject has changed in place.
explicitData(passedData) ==
  [i \in 1..Len(passedData) |->
     IF IsSensitiveKey(passedData[i].key) THEN passedData[i]
     ELSE IF passedData[i].value.type = "object"
     THEN Entry(passedData[i].key, Obj(sanitizeObject(passedData[i].value.entries)))
     ELSE passedData[i]]

\* createSubtask calls createIsolatedContext(parent, description,
\* contextToPass, mode) and saves the context it returns as it is: the
\* passedData and the downwardContext.explicitData of the stored context are
\* the ones built here.
CreateIsolatedContext(passedDataChoices) ==
  \E passedData \in passedDataChoices :
    /\ ret' = RetV("createIsolatedContext", 0, TRUE,
                   [contextToPass |-> passedData,
                    passedData |-> sanitizePassedData(passedData),
                    explicitData |-> explicitData(passedData)])
    /\ UNCHANGED <<tasks, parent, contexts, approvals, pendingApprovals, queues,
                   maxQueueSize, stats, processingTasks, procs, now, calls,
                   cache, parents, slaViolations, activeProcesses>>

(***************************************************************************)
(* The data passed to a subtask: objects of up to two entries, nested up   *)
(* to three deep, under sensitive and other key names.                     *)
(***************************************************************************)
KeySettings == <<"s", "e", "t", "t", "i", "n", "g", "s">>

LeafKeys ==
  {<<"p", "a", "s", "s", "w", "o", "r", "d">>,
   <<"D", "B", "_", "P", "A", "S", "S", "W", "O", "R", "D">>,
   <<"a", "p", "i", "K", "e", "y">>,
   <<"u", "s", "e", "r", "T", "o", "k", "e", "n">>,
   <<"n", "a", "m", "e">>}

LeafEntries == {Entry(k, Str(<<"v">>)) : k \in LeafKeys}
NestedEntries == {Entry(KeySettings, Obj(<<e>>)) : e \in LeafEntries}
DeepEntries == {Entry(KeySettings, Obj(<<e>>)) : e \in NestedEntries}
PassedEntries == LeafEntries \cup NestedEntries \cup DeepEntries

PassedDataChoices ==
  {<<>>} \cup {<<e>> : e \in PassedEntries}
         \cup UNION {{<<e1, e2>> : e2 \in {e \in PassedEntries : e.key # e1.key}} :
                      e1 \in PassedEntries}

NextSanitize == CreateIsolatedContext(PassedDataChoices)

SpecSanitize == InitEmpty /\ [][NextSanitize]_vars

(***************************************************************************)
(* C14: after createSubtask the passedData of the stored context holds the *)
(* redaction marker under every key, at any depth, whose name contains     *)
(* password, apiKey, secret, token or credentials whatever the letter      *)
(* case, and the original value under every other key.                     *)
(***************************************************************************)
NamesSensitive(key) ==
  \E sensitive \in sensitiveKeys : includes(toLowerCase(key), toLowerCase(sensitive))

RECURSIVE RedactedAtAnyDepth(_, _)
RedactedAtAnyDepth(given, stored) ==
  /\ Len(stored) = Len(given)
  /\ \A i \in 1..Len(given) :
       /\ stored[i].key = given[i].key
       /\ IF NamesSensitive(given[i].key) THEN stored[i].value = REDACTED
          ELSE IF given[i].value.type = "object"
          THEN /\ stored[i].value.type = "object"
               /\ RedactedAtAnyDepth(given[i].value.entries, stored[i].value.entries)
          ELSE stored[i].value = given[i].value

C14_SensitiveRedacted ==
  ret.op = "createIsolatedContext"
    => RedactedAtAnyDepth(ret.val.contextToPass, ret.val.passedData)

(***************************************************************************)
(* The analysis of descriptions: clients call analyzeTask with the         *)
(* descriptions of the tests and with others of every kind of score.       *)
(***************************************************************************)
AuthSystem ==
  <<"C", "r", "e", "a", "t", "e", " ", "a", " ", "n", "e", "w", " ", "u",
    "s", "e", "r", " ", "a", "u", "t", "h", "e", "n", "t", "i", "c", "a",
    "t", "i", "o", "n", " ", "s", "y", "s", "t", "e", "m", " ", "w", "i",
    "t", "h", " ", "l", "o", "g", "i", "n", ",", " ", "r", "e", "g", "i",
    "s", "t", "r", "a", "t", "i", "o", "n", ",", " ", "p", "a", "s", "s",
    "w", "o", "r", "d", " ", "r", "e", "s", "e", "t", ",", " ", "a", "n",
    "d", " ", "e", "m", "a", "i", "l", " ", "v", "e", "r", "i", "f", "i",
    "c", "a", "t", "i", "o", "n", " ", "f", "e", "a", "t", "u", "r", "e",
    "s", ".", " ", "I", "n", "c", "l", "u", "d", "e", " ", "c", "o", "m",
    "p", "r", "e", "h", "e", "n", "s", "i", "v", "e", " ", "t", "e", "s",
    "t", "i", "n", "g", " ", "a", "n", "d", " ", "d", "e", "p", "l", "o",
    "y", "m", "e", "n", "t", " ", "s", "e", "t", "u", "p", ".">>

VerboseFixTypo ==
  <<"F", "i", "x", " ", "t", "y", "p", "o", " ", "i", "n", " ", "t", "h",
    "e", " ", "r", "e", "a", "d", "m", "e", ".", " ", "F", "i", "x", " ",
    "t", "y", "p", "o", " ", "i", "n", " ", "t", "h", "e", " ", "r", "e",
    "a", "d", "m", "e", ".", " ", "F", "i", "x", " ", "t", "y", "p", "o",
    " ", "i", "n", " ", "t", "h", "e", " ", "r", "e", "a", "d", "m", "e",
    ".", " ", "F", "i", "x", " ", "t", "y", "p", "o", " ", "i", "n", " ",
    "t", "h", "e", " ", "r", "e", "a", "d", "m", "e", ".", " ", "F", "i",
    "x", " ", "t", "y", "p", "o", " ", "i", "n", " ", "t", "h", "e", " ",
    "r", "e", "a", "d", "m", "e", ".", " ", "F", "i", "x", " ", "t", "y",
    "p", "o", " ", "i", "n", " ", "t", "h", "e", " ", "r", "e", "a", "d",
    "m", "e", ".", " ", "F", "i", "x", " ", "t", "y", "p", "o", " ", "i",
    "n", " ", "t", "h", "e", " ", "r", "e", "a", "d", "m", "e", ".", " ",
    "F", "i", "x", " ", "t", "y", "p", "o", " ", "i", "n", " ", "t", "h",
    "e", " ", "r", "e", "a", "d", "m", "e", ".", " ", "F", "i", "x", " ",
    "t", "y", "p", "o", " ", "i", "n", " ", "t", "h", "e", " ", "r", "e",
    "a", "d", "m", "e", ".">>

CreateChangelog == <<"C", "r", "e", "a", "t", "e", " ", "c", "h", "a", "n",
                     "g", "e", "l", "o", "g">>
RenameComponent == <<"R", "e", "n", "a", "m", "e", " ", "c", "o", "m", "p",
                     "o", "n", "e", "n", "t">>

Descriptions ==
  {FixTypo, UpdateVersion, AuthSystem, VerboseFixTypo, CreateChangelog,
   RenameComponent}

BreakDownCall ==
  /\ calls < MaxAnalyzeCalls
  /\ Analyzing = {}
  /\ AnalyzeTask(Descriptions, {CtxEmpty, CtxNode})

NextBreakDown ==
  \/ BreakDownCall
  \/ Step(AnalyzeSaveTask)

SpecBreakDown == InitEmpty /\ [][NextBreakDown]_vars

\* An analyzeTask call has just answered, from the cache or with a new task.
Answered == ret.op \in {"analyzeTask", "analyzeTask:miss"}

C15_WitnessSimple ==
  /\ Answered
  /\ ret.val.task.analysis.complexity = 1
  /\ ~ret.val.task.analysis.shouldBreakDown

(***************************************************************************)
(* C16: the description of the authentication system scores 5 (1, three    *)
(* action keywords, a comma), is broken down, and has the four suggested   *)
(* subtasks design, implementation, testing and deployment; 'Fix typo'     *)
(* scores 1 and has no suggested subtasks.                                 *)
(***************************************************************************)
SubtaskTypes(analysis) ==
  {analysis.suggestedSubtasks[i] : i \in 1..Len(analysis.suggestedSubtasks)}

C16_Scenario ==
  Answered =>
    LET analysis == ret.val.task.analysis
    IN  /\ ret.val.task.description = AuthSystem
             => /\ analysis.complexity = 5
                /\ analysis.shouldBreakDown
                /\ analysis.suggestedSubtasks
                     = <<"design", "implementation", "testing", "deployment">>
        /\ ret.val.task.description = FixTypo
             => /\ analysis.complexity = 1
                /\ analysis.suggestedSubtasks = <<>>

C16_Witness ==
  /\ Answered
  /\ ret.val.task.description = AuthSystem
  /\ Len(ret.val.task.analysis.suggestedSubtasks) = 4

\* C16 as stated: the authentication system scores at least 7.
C16_ScoreAtLeastSeven ==
  (Answered /\ ret.val.task.description = AuthSystem)
    => /\ ret.val.task.analysis.complexity >= 7
       /\ Len(ret.val.task.analysis.suggestedSubtasks) >= 4
       /\ {"design", "implementation", "testing", "deployment"}
            \subseteq SubtaskTypes(ret.val.task.analysis)

(***************************************************************************)
(* getTaskProgress of the Orchestrator and of the ResultsMerger            *)
(***************************************************************************)
NaN == -2               \* Math.round(0 / 0 * 100)

\* Math.round(a / b) of a non-negative quotient: halves go up.
MathRound(a, b) == (2 * a + b) \div (2 * b)

\* Orchestrator.calculateSubtaskProgress(subtask)
calculateSubtaskProgress(subtask) ==
  IF subtask = NoTask THEN 0
  ELSE CASE subtask.status = "created" -> 0
         [] subtask.status = "approved" -> 25
         [] subtask.status = "executing" -> 50
         [] subtask.status = "completed" -> 100
         [] subtask.status = "failed" -> 0
         [] subtask.status = "rejected" -> 0
         [] OTHER -> 0

RECURSIVE SumProgress(_, _)
SumProgress(store, ids) ==
  IF ids = <<>> THEN 0
  ELSE calculateSubtaskProgress(store[Head(ids)]) + SumProgress(store, Tail(ids))

\* Orchestrator.getTaskProgress(taskId): totalProgress, the rounded mean of
\* the progress of the listed subtasks, 0 with none listed.  A missing task
\* throws.  The loads are taken at once: no handler writes between them in
\* the specification that calls it.
GetTaskProgress ==
  /\ IF parent = NoParent
     THEN ret' = Ret("getTaskProgress", 0, FALSE)
     ELSE ret' = RetV("getTaskProgress", 0, TRUE,
                      [progress |->
                         IF parent.subtasks = <<>> THEN 0
                         ELSE MathRound(SumProgress(tasks, parent.subtasks),
                                        Len(parent.subtasks)),
                       totalSubtasks |-> Len(parent.subtasks)])
  /\ UNCHANGED <<tasks, parent, contexts, approvals, pendingApprovals, queues,
                 maxQueueSize, stats, processingTasks, procs, now, calls,
                 cache, parents, slaViolations, activeProcesses>>

\* ResultsMerger.getTaskProgress(parentTaskId): progressPercentage, the
\* rounded share of 'completed' among the listed subtasks that load.  A
\* missing parent returns null.
MergerGetTaskProgress ==
  /\ IF parent = NoParent
     THEN ret' = Ret("getTaskProgress", 0, FALSE)
     ELSE LET subtaskStatuses == SelectSeq(parent.subtasks,
                                           LAMBDA id : tasks[id] # NoTask)
              completedCount == Len(SelectSeq(subtaskStatuses,
                                  LAMBDA id : tasks[id].status = "completed"))
          IN  ret' = RetV("getTaskProgress", 0, TRUE,
                          [progress |->
                             IF subtaskStatuses = <<>> THEN NaN
                             ELSE MathRound(completedCount * 100,
                                            Len(subtaskStatuses)),
                           totalSubtasks |-> Len(subtaskStatuses)])
  /\ UNCHANGED <<tasks, parent, contexts, approvals, pendingApprovals, queues,
                 maxQueueSize, stats, processingTasks, procs, now, calls,
                 cache, parents, slaViolations, activeProcesses>>

(***************************************************************************)
(* The merger over a stored parent: the parent lists some of the subtask   *)
(* ids, each of which is missing from storage or stored in some status;    *)
(* clients merge the results and ask for the progress.                     *)
(***************************************************************************)
NumMerged == 3          \* subtask ids 1..NumMerged a parent may list

MergedIds == 1..NumMerged

SubtaskStatuses ==
  {"created", "approved", "executing", "completed", "failed", "rejected"}

\* A completed subtask was stored with its results and summary, a failed one
\* with its error.
StoredSubtasks ==
  {NoTask} \cup {[CreatedTask("code", "medium", "implementation", DefaultEst, FALSE)
                    EXCEPT !.status = s,
                           !.hasResults = (s = "completed"),
                           !.hasSummary = (s = "completed"),
                           !.error = (s = "failed")] : s \in SubtaskStatuses}

InitMerge ==
  /\ tasks \in [MergedIds -> StoredSubtasks]
  /\ parent \in {[subtasks |-> [i \in 1..n |-> i], status |-> "analyzed"] :
                   n \in 0..NumMerged}
  /\ contexts = [i \in SubIds |-> NoCtx]
  /\ approvals = [a \in ApprIds |-> NoAppr]
  /\ pendingApprovals = [i \in SubIds |-> 0]
  /\ queues = EmptyQueues
  /\ maxQueueSize = 2
  /\ cache = <<>>
  /\ parents = <<>>
  /\ slaViolations = [p \in Priorities |-> 0]
  /\ activeProcesses = {}
  /\ stats = [p \in Priorities |-> 0]
  /\ processingTasks = {}
  /\ procs = EmptyBag
  /\ now = 0
  /\ ret = Ret("init", 0, TRUE)
  /\ calls = 0

\* One mergeSubtaskResults call at a time.
MergeCall ==
  /\ procs = EmptyBag
  /\ MergeSubtaskResults

NextMerge ==
  \/ MergeCall
  \/ Step(MergeLoadSubtasks)
  \/ Step(MergeSaveParent)
  \/ GetTaskProgress
  \/ MergerGetTaskProgress

SpecMerge == InitMerge /\ [][NextMerge]_vars

(***************************************************************************)
(* C17: mergeSubtaskResults reports overallSuccess true exactly when every *)
(* listed subtask id resolves to a completed subtask, and a completion     *)
(* ratio of the completed subtasks over the listed ids: with 3 listed, 2   *)
(* completed and 1 failed, false and 2/3.                                  *)
(***************************************************************************)
CompletedOf(store, ids) ==
  Len(SelectSeq(ids, LAMBDA id : store[id] # NoTask /\ store[id].status = "completed"))

C17_OverallSuccess ==
  (ret.op = "mergeSubtaskResults" /\ ret.ok)
    => /\ ret.val.overallSuccess
            = (\A i \in 1..Len(parent.subtasks) :
                 /\ tasks[parent.subtasks[i]] # NoTask
                 /\ tasks[parent.subtasks[i]].status = "completed")
       /\ ret.val.completionStatus
            = <<CompletedOf(tasks, parent.subtasks), Len(parent.subtasks)>>

C17_Witness ==
  /\ ret.op = "mergeSubtaskResults"
  /\ ret.ok
  /\ Len(parent.subtasks) = 3
  /\ \E i \in 1..3 : tasks[i] # NoTask /\ tasks[i].status = "failed"
  /\ ret.val.completionStatus = <<2, 3>>
  /\ ~ret.val.overallSuccess

C17_WitnessSuccess ==
  /\ ret.op = "mergeSubtaskResults"
  /\ ret.ok
  /\ Len(parent.subtasks) = 3
  /\ ret.val.overallSuccess

(***************************************************************************)
(* C18: getTaskProgress returns, for a parent, the average over its        *)
(* subtasks of created 0, approved 25, executing 50, completed 100, failed *)
(* 0 and rejected 0, as a whole percentage.                                *)
(***************************************************************************)
C18_ProgressAverage ==
  (ret.op = "getTaskProgress" /\ ret.ok /\ parent.subtasks # <<>>)
    => ret.val.progress = MathRound(SumProgress(tasks, parent.subtasks),
                                    Len(parent.subtasks))

(***************************************************************************)
(* createSubtask under a parent id that may or may not resolve: storage    *)
(* holds the parent task or does not.                                      *)
(***************************************************************************)
InitCreate ==
  \/ InitEmpty
  \/ InitLife

\* Options of createSubtask that let every rule pass: any impact, every
\* mode, a long estimate, no manual review asked for.
PermissiveOptions ==
  [maxImpact |-> "high",
   allowedModes |-> {"code", "architect", "debug", "test", "review", "docs"},
   maxEstimatedTime |-> 1000, requiresManualReview |-> FALSE]

CreateCall ==
  CreateSubtask({"code", "architect"}, {"high"}, {"testing"}, {DefaultEst},
                {TRUE, FALSE}, {NoRules, PermissiveOptions})

NextCreate ==
  \/ CreateCall
  \/ Step(CreateSaveTask)
  \/ Step(CreateSaveContext)
  \/ Step(CreateSaveParent)
  \/ Step(AutoApproveLoad)
  \/ Step(SaveApprovalRequest)
  \/ Step(LoadApprovalRequest)
  \/ Step(SaveApprovalDecision)
  \/ Step(ApprovalLoadTask)
  \/ Step(ApprovalSaveTask)

SpecCreate == InitCreate /\ [][NextCreate]_vars

(***************************************************************************)
(* C20: createSubtask with a parentTaskId that does not resolve to a       *)
(* stored task fails with not-found and persists nothing: the call throws  *)
(* at once, leaves storage as it was and no handler behind, and while the  *)
(* parent is missing no subtask, context or approval request is stored.    *)
(***************************************************************************)
C20_ParentNotFound ==
  /\ [][(parent = NoParent /\ ret'.op \in {"createSubtask", "createSubtask:begin"})
          => /\ ret'.op = "createSubtask"
             /\ ~ret'.ok
             /\ UNCHANGED <<tasks, parent, contexts, approvals, pendingApprovals,
                            procs>>]_vars
  /\ [](parent = NoParent
          => /\ \A i \in SubIds : tasks[i] = NoTask /\ contexts[i] = NoCtx
             /\ \A a \in ApprIds : approvals[a] = NoAppr)

C20_Witness ==
  /\ parent = NoParent
  /\ ret.op = "createSubtask"
  /\ ~ret.ok

(***************************************************************************)
(* SubtaskManager.bulkOperation                                            *)
(***************************************************************************)
BulkOperations == {"approve", "reject", "changeMode", "changePriority", "archive"}

\* The catch of bulkOperation that lets every error pass as a success.
NeverThrew(r) == FALSE

\* bulkOperation: the awaited operation threw, so the catch block runs.
\* changePriority returning false (the task is not queued) is no error.
Threw(r) == ~r.ok /\ r.op # "changePriority"

\* bulkOperation: the awaited operation has settled, returned or thrown.
Settled(r) ==
  \/ r.op \in {"processApproval:done", "changeSubtaskMode:done",
               "changePriority", "bulkOperation:throw"}
  \/ r.op \in {"processApproval", "changeSubtaskMode"} /\ ~r.ok

\* The object bulkOperation returns, with the arguments it was given.
BulkSummary(subtaskIds, operation, results) ==
  [subtaskIds |-> subtaskIds,
   operation |-> operation,
   total |-> Len(subtaskIds),
   successful |-> Len(SelectSeq(results, LAMBDA r : r.success)),
   failed |-> Len(SelectSeq(results, LAMBDA r : ~r.success)),
   results |-> results]

\* bulkOperation calls in flight.
Bulks == {p \in BagToSet(procs) : p.op = "bulkOperation"}

\* bulkOperation(subtaskIds, operation, options): an empty list returns at
\* once; otherwise the loop is entered.
BulkOperation(idLists, operations) ==
  \E subtaskIds \in idLists, operation \in operations :
    /\ IF subtaskIds = <<>>
       THEN /\ ret' = RetV("bulkOperation", 0, TRUE, BulkSummary(subtaskIds, operation, <<>>))
            /\ UNCHANGED procs
       ELSE /\ BagCardinality(procs) < MaxProcs
            /\ procs' = BagAdd(procs,
                 NoProcFields("bulkLoop", "bulkOperation", 0, NoQ, NoTask)
                   @@ [subtaskIds |-> subtaskIds, operation |-> operation,
                       results |-> <<>>])
            /\ ret' = Ret("bulkOperation:next", 0, TRUE)
    /\ UNCHANGED <<tasks, parent, contexts, approvals, pendingApprovals, queues,
                   maxQueueSize, stats, processingTasks, now, calls, cache,
                   parents, slaViolations, activeProcesses>>

\* bulkOperation, the switch: the operation is called on the next id.
\* approveSubtask and rejectSubtask hand the id to processApproval as the
\* approval id, so loadApprovalRequest finds a request only when the id names
\* one; loadTask of an id that names no subtask returns null; an operation the
\* switch does not know throws, and so does changePriority without a valid
\* options.newPriority.
BulkCall(newModes, newPriorities, p) ==
  /\ p.pc = "bulkLoop"
  /\ ret.op = "bulkOperation:next"
  /\ LET subtaskId == p.subtaskIds[Len(p.results) + 1]
         Throw(op) ==
           /\ ret' = Ret(op, 0, FALSE)
           /\ UNCHANGED <<tasks, parent, contexts, approvals, pendingApprovals,
                          queues, maxQueueSize, stats, processingTasks, procs,
                          now, calls, cache, parents,
                          slaViolations, activeProcesses>>
     IN  CASE p.operation \in {"approve", "reject"} ->
                IF subtaskId.approval = 0
                THEN Throw("processApproval")
                ELSE ProcessApprovalLoaded(procs,
                       Proc("call", "processApproval", 0, NoQ, NoTask, NoParent,
                            NoAppr, 0, "none", NoRules),
                       subtaskId.approval,
                       IF p.operation = "approve" THEN "approved" ELSE "rejected",
                       "manual")
           [] p.operation = "changeMode" ->
                IF subtaskId.task = 0
                THEN Throw("changeSubtaskMode")
                ELSE ChangeSubtaskMode({subtaskId.task}, newModes)
           [] p.operation = "changePriority" ->
                \E newPriority \in newPriorities :
                  IF newPriority \in Priorities
                  THEN ChangePriority({subtaskId.task}, {newPriority})
                  ELSE Throw("bulkOperation:throw")
           [] OTHER -> Throw("bulkOperation:throw")

\* bulkOperation: the awaited operation has settled; its entry is pushed,
\* a failure from the catch block, and the loop goes on or the call returns.
BulkCollect(p) ==
  /\ p.pc = "bulkLoop"
  /\ Settled(ret)
  /\ LET subtaskId == p.subtaskIds[Len(p.results) + 1]
         results == Append(p.results,
                           [subtaskId |-> subtaskId, success |-> ~Threw(ret)])
     IN  IF Len(results) = Len(p.subtaskIds)
         THEN /\ procs' = BagDel(procs, p)
              /\ ret' = RetV("bulkOperation", 0, TRUE,
                             BulkSummary(p.subtaskIds, p.operation, results))
         ELSE /\ procs' = BagAdd(BagDel(procs, p), [p EXCEPT !.results = results])
              /\ ret' = Ret("bulkOperation:next", 0, TRUE)
  /\ UNCHANGED <<tasks, parent, contexts, approvals, pendingApprovals, queues,
                 maxQueueSize, stats, processingTasks, now, calls, cache, parents,
                 slaViolations, activeProcesses>>

(***************************************************************************)
(* Bulk operations by one client: subtask 1 waits for a decision on        *)
(* approval request 1, subtask 2 is queued; no request has id 2.  The      *)
(* client is the only caller, so the operation that settles is the one the *)
(* loop awaits.                                                            *)
(***************************************************************************)
MaxBulkIds == 2         \* length of the id list given to bulkOperation

\* An id of generateId names a subtask or an approval request, never both.
BulkIds ==
  {[task |-> i, approval |-> 0] : i \in SubIds}
    \cup {[task |-> 0, approval |-> a] : a \in ApprIds}

BulkIdLists == UNION {[1..n -> BulkIds] : n \in 0..MaxBulkIds}

InitBulk ==
  /\ tasks = [i \in SubIds |->
                IF i = 1 THEN CreatedTask("architect", "low", "testing", DefaultEst, TRUE)
                ELSE IF i = 2 THEN CreatedTask("code", "low", "testing", DefaultEst, FALSE)
                ELSE NoTask]
  /\ parent = [subtasks |-> <<1, 2>>, status |-> "analyzed"]
  /\ contexts = [i \in SubIds |->
                   IF i = 1 THEN CreatedCtx("architect")
                   ELSE IF i = 2 THEN CreatedCtx("code")
                   ELSE NoCtx]
  /\ approvals = [a \in ApprIds |-> IF a = 1 THEN PendingAppr(1) ELSE NoAppr]
  /\ pendingApprovals = [i \in SubIds |-> IF i = 1 THEN 1 ELSE 0]
  /\ queues = enqueue(EmptyQueues, TaskArg(2, "real", Undefined), "medium",
                      DefaultOptions, 0)
  /\ maxQueueSize = 2
  /\ cache = <<>>
  /\ parents = <<>>
  /\ slaViolations = [p \in Priorities |-> 0]
  /\ activeProcesses = {}
  /\ stats = [p \in Priorities |-> IF p = "medium" THEN 1 ELSE 0]
  /\ processingTasks = {}
  /\ procs = EmptyBag
  /\ now = 0
  /\ ret = Ret("init", 0, TRUE)
  /\ calls = 0

BulkStart ==
  /\ Bulks = {}
  /\ BulkOperation(BulkIdLists, BulkOperations)

BulkNext(p) == BulkCall({"docs"}, {"high", "urgent"}, p)

NextBulk ==
  \/ BulkStart
  \/ Step(BulkNext)
  \/ Step(BulkCollect)
  \/ Step(SaveApprovalDecision)
  \/ Step(ApprovalLoadTask)
  \/ Step(ApprovalSaveTask)
  \/ Step(ChangeSaveTask)
  \/ Step(ChangeSaveContext)

SpecBulk == InitBulk /\ [][NextBulk]_vars

(***************************************************************************)
(* C19: bulkOperation never fails as a whole.  Whatever the ids and the    *)
(* operation, it returns; it returns one entry per id of the list, in the  *)
(* order of the list, each a success or a failure, with total the length   *)
(* of the list and successful and failed adding up to it.  An id whose     *)
(* operation throws (an approval or a rejection of an id that names no     *)
(* approval request, every id under an operation the switch does not know) *)
(* gets a failure entry, and the ids after it are still served.            *)
(***************************************************************************)
C19_BulkReturn ==
  /\ (ret.op = "bulkOperation")
       => /\ ret.ok
          /\ ret.val.total = Len(ret.val.subtaskIds)
          /\ Len(ret.val.results) = ret.val.total
          /\ ret.val.successful + ret.val.failed = ret.val.total
          /\ \A i \in 1..Len(ret.val.results) :
               /\ ret.val.results[i].subtaskId = ret.val.subtaskIds[i]
               /\ ret.val.results[i].success \in BOOLEAN
               /\ ( \/ ret.val.operation \notin {"approve", "reject",
                                                "changeMode", "changePriority"}
                    \/ /\ ret.val.operation \in {"approve", "reject"}
                       /\ ret.val.subtaskIds[i].approval = 0 )
                  => ~ret.val.results[i].success
  /\ \A p \in Bulks :
       /\ Len(p.results) < Len(p.subtaskIds)
       /\ \A i \in 1..Len(p.results) : p.results[i].subtaskId = p.subtaskIds[i]

\* A bulk approval returned a failure entry for an id that names a subtask
\* and then a success entry for an id that names the pending request.
C19_Witness ==
  /\ ret.op = "bulkOperation"
  /\ ret.val.operation = "approve"
  /\ ret.val.total = 2
  /\ ret.val.subtaskIds[1].task = 1
  /\ ~ret.val.results[1].success
  /\ ret.val.results[2].success
  /\ approvals[1].status = "approved"

(***************************************************************************)
(* PriorityQueue.cleanupExpiredTasks, the sweep the constructor's timer    *)
(* runs every minute.                                                      *)
(***************************************************************************)
\* The age test of the sweep met already at the limit.
ExpiredAtLimit(age, maxAge) == age >= maxAge

\* cleanupExpiredTasks: if (age > maxAge)
ExpiredAge(age, maxAge) == age > maxAge

\* cleanupExpiredTasks: the loop over one tier, from index i down to the
\* first entry; an expired entry is spliced out.
RECURSIVE sweepQueue(_, _, _, _)
sweepQueue(queue, i, maxAge, t) ==
  IF i = 0 THEN queue
  ELSE sweepQueue(IF ExpiredAge(t - queue[i].queuedAt, maxAge)
                  THEN RemoveAt(queue, i) ELSE queue,
                  i - 1, maxAge, t)

\* cleanupExpiredTasks: every tier swept with maxAge twice its maxWaitTime.
cleanupExpiredTasks(qs, t) ==
  [priority \in Priorities |->
     sweepQueue(qs[priority], Len(qs[priority]),
                slaConfig[priority].maxWaitTime * 2, t)]

\* The timer fires: cleanupExpiredTasks().
CleanupExpiredTasks ==
  /\ queues' = cleanupExpiredTasks(queues, now)
  /\ ret' = Ret("cleanupExpiredTasks",
                getTotalSize(queues) - getTotalSize(queues'), TRUE)
  /\ UNCHANGED <<tasks, parent, contexts, approvals, pendingApprovals,
                 maxQueueSize, stats, processingTasks, procs, now, calls, cache,
                 parents, slaViolations, activeProcesses>>

\* Date.now() has moved on to a later instant.
ClockTo(instants) ==
  /\ \E t \in instants : t > now /\ now' = t
  /\ ret' = Ret("clock", 0, TRUE)
  /\ UNCHANGED <<tasks, parent, contexts, approvals, pendingApprovals, queues,
                 maxQueueSize, stats, processingTasks, procs, calls, cache,
                 parents, slaViolations, activeProcesses>>

(***************************************************************************)
(* The queue under its sweep: clients enqueue entries, change priorities   *)
(* and dequeue while time passes and the timer fires.  The instants at     *)
(* which something happens lie around the limits of the tiers: past the    *)
(* maxWaitTime of a tier, at twice that time and past it.                  *)
(***************************************************************************)
MaxSweepEnqueues == 2   \* enqueue calls made by clients, sweep specification

SweepInstants ==
  UNION {{slaConfig[p].maxWaitTime + 1, slaConfig[p].maxWaitTime * 2,
          slaConfig[p].maxWaitTime * 2 + 1} : p \in {"high", "low"}}

InitSweep == InitQueue(2)

SweepEnqueue ==
  /\ calls < MaxSweepEnqueues
  /\ QueueEnqueue(SubIds, {"high", "low"}, {DefaultOptions}, {Undefined})

NextSweep ==
  \/ SweepEnqueue
  \/ Dequeue
  \/ ChangePriority({1}, {"high", "medium"})
  \/ ClockTo(SweepInstants)
  \/ CleanupExpiredTasks

SpecSweep == InitSweep /\ [][NextSweep]_vars

\* The consumer of the queue keeps calling dequeue.
FairSweep == SpecSweep /\ WF_vars(Dequeue)

(***************************************************************************)
(* C21: the queue escalates by itself.  An entry queued in the low tier is *)
(* in the end dequeued, or found in a higher tier; nothing but dequeue     *)
(* takes it away.                                                          *)
(***************************************************************************)
C21_Escalation ==
  \A id \in SubIds :
    (TierOf(queues, id) = "low")
      ~> \/ TierOf(queues, id) \in {"high", "medium"}
         \/ ret.op = "dequeue" /\ ret.id = id

(***************************************************************************)
(* C27: the sweep removes from each tier exactly the entries older than    *)
(* twice the maxWaitTime of that tier and keeps the others in their order; *)
(* it leaves the SLA violation counters alone, which only dequeue changes. *)
(***************************************************************************)
KeptBySweep(p, t) ==
  SelectSeq(queues[p],
            LAMBDA task : t - task.queuedAt <= 2 * slaConfig[p].maxWaitTime)

C27_Sweep ==
  [][/\ ret'.op = "cleanupExpiredTasks"
       => /\ \A p \in Priorities : queues'[p] = KeptBySweep(p, now)
          /\ slaViolations' = slaViolations
     /\ slaViolations' # slaViolations => ret'.op = "dequeue"]_vars

\* The sweep has removed an entry and kept one that is exactly at the limit
\* of its tier.
C27_Witness ==
  /\ ret.op = "cleanupExpiredTasks"
  /\ ret.id > 0
  /\ \E p \in Priorities : \E i \in 1..Len(queues[p]) :
       now - queues[p][i].queuedAt = 2 * slaConfig[p].maxWaitTime

\* dequeue has counted an SLA violation.
C27_WitnessViolation ==
  /\ ret.op = "dequeue"
  /\ \E p \in Priorities : slaViolations[p] > 0

(***************************************************************************)
(* C22: when a processApproval call returns, the stored approval request   *)
(* has the status the call decided, and the stored subtask has that        *)
(* decision as its approvalStatus and as its status.                       *)
(***************************************************************************)
C22_Lockstep ==
  [][\A p \in BagToSet(procs) :
       (/\ p.op = "processApproval"
        /\ p.pc = "approvalSaveTask"
        /\ ret'.op = "processApproval:done"
        /\ CopiesIn(p, procs') < CopiesIn(p, procs))
         => /\ approvals'[p.aid].status = p.decision
            /\ tasks'[p.id].approvalStatus = p.decision
            /\ tasks'[p.id].status = p.decision]_vars

(***************************************************************************)
(* C23: createSubtask with requiresApproval true and the Architect mode    *)
(* never auto-approves, whatever the options: when it returns, the stored  *)
(* subtask has status created and approvalStatus pending, and exactly one  *)
(* approval request names it, with status pending.                         *)
(***************************************************************************)
RequestsOf(subtaskId) == {a \in ApprIds : approvals[a].subtaskId = subtaskId}

C23_ArchitectManual ==
  (/\ ret.op \in {"createSubtask:pending", "createSubtask:approved"}
   /\ tasks[ret.id].mode = "architect")
    => /\ ret.op = "createSubtask:pending"
       /\ tasks[ret.id].status = "created"
       /\ tasks[ret.id].approvalStatus = "pending"
       /\ Cardinality(RequestsOf(ret.id)) = 1
       /\ \A a \in RequestsOf(ret.id) : approvals[a].status = "pending"

\* An architect subtask was created under options that let every rule pass,
\* and its request waits for a manual decision.
C23_Witness ==
  /\ ret.op = "createSubtask:pending"
  /\ tasks[ret.id].mode = "architect"
  /\ "architect" \in ret.rules.allowedModes
  /\ ret.rules.maxImpact = "high"

\* A code subtask was auto-approved under the same options.
C23_WitnessAuto ==
  /\ ret.op = "createSubtask:approved"
  /\ tasks[ret.id].mode = "code"
  /\ tasks[ret.id].status = "approved"

(***************************************************************************)
(* Direct execution: clients call executeSubtask on the stored subtasks,   *)
(* in simulation or in real mode, several calls in flight at once.         *)
(***************************************************************************)
ExecCall == ExecuteSubtask({1, NumSubtasks}, ExecModes)

NextExec ==
  \/ ExecCall
  \/ Step(SaveExecuting)
  \/ Step(ExecuteTask)
  \/ Step(SaveCompleted)
  \/ Step(SaveContext)
  \/ Step(SaveFailed)

SpecExec == InitStored /\ [][NextExec]_vars

(***************************************************************************)
(* C24: when the execution throws inside processSubtask, the handler       *)
(* stores the subtask with status failed and the error recorded, re-throws *)
(* to its caller and takes the id out of processingTasks; when it          *)
(* succeeds, the handler stores the subtask with status completed, its     *)
(* results and a summary, and returns with the id out of processingTasks.  *)
(***************************************************************************)
Rethrown == {"executeSubtask:failed", "processQueuedTask:failed",
             "processQueuedTask:requeued", "processQueuedTask:requeueFull"}

C24_FailedOrCompleted ==
  [][/\ ret'.op = "processSubtask:executed" /\ ~ret'.ok
          => \E p \in BagToSet(procs') :
               /\ p.id = ret'.id
               /\ p.pc = "saveFailed"
               /\ p.sub.status = "failed" /\ p.sub.error
     /\ ret'.op \in Rethrown
          => /\ ~ret'.ok
             /\ tasks'[ret'.id].status = "failed"
             /\ tasks'[ret'.id].error
             /\ \/ ret'.id \notin processingTasks'
                \/ \E p \in BagToSet(procs') : p.id = ret'.id
     /\ ret'.op = "processSubtask:completed"
          => /\ tasks'[ret'.id].status = "completed"
             /\ tasks'[ret'.id].hasResults
             /\ tasks'[ret'.id].hasSummary
     /\ ret'.op \in {"executeSubtask:done", "processQueuedTask:done"}
          => /\ ret'.ok
             /\ \/ ret'.id \notin processingTasks'
                \/ \E p \in BagToSet(procs') : p.id = ret'.id]_vars

\* A real execution threw and the call failed; the subtask is stored as
\* failed with its error, and no execution of it is left.
C24_Witness ==
  /\ ret.op = "executeSubtask:failed"
  /\ tasks[ret.id].status = "failed"
  /\ tasks[ret.id].error
  /\ ret.id \notin processingTasks

\* An execution succeeded and the call returned.
C24_WitnessCompleted ==
  /\ ret.op = "executeSubtask:done"
  /\ tasks[ret.id].status = "completed"
  /\ tasks[ret.id].hasResults

(***************************************************************************)
(* C25: the stored context's upwardContext is null until the subtask       *)
(* completes and is set when processSubtask completes successfully.        *)
(***************************************************************************)
C25_UpwardContext ==
  (ret.op = "executeSubtask:done") => contexts[ret.id].hasUpwardContext

(***************************************************************************)
(* C28: the executor's active set never holds more than maxConcurrentTasks *)
(* entries; a real call that arrives with the set at the ceiling throws at *)
(* once and leaves the set as it is; an admitted call deletes its entry    *)
(* when it settles, resolved or thrown, so that nothing stays behind when  *)
(* no call is in flight.                                                   *)
(***************************************************************************)
C28_Ceiling ==
  [][/\ Cardinality(activeProcesses') <= maxConcurrentTasks
     /\ ret'.op = "executeTask:ceiling"
          => /\ ~ret'.ok
             /\ Cardinality(activeProcesses) = maxConcurrentTasks
             /\ activeProcesses' = activeProcesses
     /\ ret'.op = "executeTask:admitted"
          => /\ Cardinality(activeProcesses) < maxConcurrentTasks
             /\ activeProcesses' = activeProcesses \cup {ret'.id}
     /\ ret'.op = "processSubtask:executed" /\ ret'.val.executionMode = "real"
          => ret'.id \notin activeProcesses'
     /\ procs' = EmptyBag => activeProcesses' = {}]_vars

\* A real call was turned away at the ceiling while another held the set.
C28_Witness ==
  /\ ret.op = "executeTask:ceiling"
  /\ Cardinality(activeProcesses) = maxConcurrentTasks
  /\ ret.id \notin activeProcesses

\* An admitted call has thrown and its entry is gone.
C28_WitnessReleased ==
  /\ ret.op = "processSubtask:executed"
  /\ ret.val.executionMode = "real"
  /\ ~ret.ok
  /\ activeProcesses = {}

(***************************************************************************)
(* The tiers of the queue while the clock runs: clients enqueue and change *)
(* priorities, the worker loop dequeues, and failed entries are retried.   *)
(***************************************************************************)
MaxTierEnqueues == 2

InitTier == InitQueue(2)

TierEnqueue ==
  /\ calls < MaxTierEnqueues
  /\ QueueEnqueue({1}, {"low"}, {DefaultOptions}, {DefaultMaxRetries - 1})

\* The clock moves on between the worker's ticks, while entries wait.
TierClock ==
  /\ procs = EmptyBag
  /\ getTotalSize(queues) > 0
  /\ AdvanceClock

NextTier ==
  \/ TierEnqueue
  \/ ChangePriority({1}, {"high", "low"})
  \/ TierClock
  \/ CapTick
  \/ Step(QueuedLoad)
  \/ Step(SaveExecuting)
  \/ Step(ExecuteTask)
  \/ Step(SaveCompleted)
  \/ Step(SaveContext)
  \/ Step(SaveFailed)

SpecTier == InitTier /\ [][NextTier]_vars

\* Every item of tier p has priority p and the SLA profile of p.
TierTagged(qs) ==
  \A p \in Priorities : \A i \in 1..Len(qs[p]) :
    qs[p][i].priority = p /\ qs[p][i].sla = p

Last(s) == s[Len(s)]

(***************************************************************************)
(* C26: every item of tier p has priority p and the SLA profile of p; an   *)
(* enqueue and the re-enqueue of a retried entry put an item tagged with   *)
(* the SLA of the given priority at the tail of that tier; a successful    *)
(* changePriority takes the item out of its place and puts it at the tail  *)
(* of the new tier with the new tier's SLA, its queuedAt as it was, and    *)
(* the total number of queued items unchanged.                             *)
(***************************************************************************)
C26_TierTags ==
  [][/\ TierTagged(queues')
     /\ (ret'.op = "enqueue" /\ ret'.ok)
          => \E p \in Priorities :
               /\ Len(queues'[p]) > 0
               /\ queues' = [queues EXCEPT ![p] = Append(@, Last(queues'[p]))]
               /\ Last(queues'[p]).sla = p
               /\ Last(queues'[p]).queuedAt = now
     /\ ret'.op = "processQueuedTask:requeued"
          => LET p == ret'.val.priority
             IN  /\ Len(queues'[p]) > 0
                 /\ queues' = [queues EXCEPT ![p] = Append(@, Last(queues'[p]))]
                 /\ Last(queues'[p]).sla = p
                 /\ Last(queues'[p]).id = ret'.id
                 /\ Last(queues'[p]).retryCount = ret'.val.retryCount
     /\ (ret'.op = "changePriority" /\ ret'.ok)
          => \E id \in SubIds, new \in Priorities :
               LET old == TierOf(queues, id)
                   i == IndexOf(queues[old], id)
                   item == queues[old][i]
                   rest == [queues EXCEPT ![old] = RemoveAt(@, i)]
               IN  /\ old # "none"
                   /\ Len(queues'[new]) > 0
                   /\ Last(queues'[new]).id = id
                   /\ Last(queues'[new]).sla = new
                   /\ Last(queues'[new]).priority = new
                   /\ Last(queues'[new]).queuedAt = item.queuedAt
                   /\ queues' = [rest EXCEPT ![new] = Append(@, Last(queues'[new]))]
                   /\ getTotalSize(queues') = getTotalSize(queues)]_vars

\* changePriority has moved an item behind one that was enqueued after it:
\* the tail of a tier is older than the item in front of it.
C26_Witness ==
  /\ ret.op = "changePriority"
  /\ ret.ok
  /\ \E p \in Priorities :
       /\ Len(queues[p]) >= 2
       /\ Last(queues[p]).queuedAt < queues[p][Len(queues[p]) - 1].queuedAt
       /\ Last(queues[p]).sla = p

\* A failed entry has been re-enqueued after the clock moved on.
C26_WitnessRetry ==
  /\ ret.op = "processQueuedTask:requeued"
  /\ now > 0
  /\ \E p \in Priorities :
       /\ Len(queues[p]) >= 1
       /\ Last(queues[p]).retryCount = DefaultMaxRetries
       /\ Last(queues[p]).queuedAt = now

(***************************************************************************)
(* RetryManager: executeWithRetry as TaskExecutor.executeHTTPRequest calls *)
(* it, with the retry condition of createRetryCondition().                 *)
(***************************************************************************)
\* TaskExecutor constructor: new RetryManager({maxRetries: 3, ...})
RetryMaxRetries == 3

\* calls of executeHTTPRequest made over a run
MaxRetryCalls == 2

\* createRetryCondition: defaultRetryableErrors, no further codes given.
allRetryableCodes ==
  {"ECONNRESET", "ENOTFOUND", "ECONNREFUSED", "ETIMEDOUT", "EPIPE"}

\* An error object: its code and statusCode fields.
HttpError(statusCode) == [code |-> "none", statusCode |-> statusCode]

\* req.on('error'): error.statusCode = error.statusCode || 0
NetworkError(code) == [code |-> code, statusCode |-> 0]

\* An error with neither field, such as the TypeError of new URL(url).
PlainError == [code |-> "none", statusCode |-> Undefined]

NoError == [code |-> "none", statusCode |-> 200]

\* What fn() may throw: HTTP errors, network errors, any other error.
FnErrors ==
  {HttpError(500), HttpError(429), HttpError(404), HttpError(499),
   NetworkError("ECONNRESET"), NetworkError("EHOSTUNREACH"), PlainError}

\* A condition that has every error retried.
retryEveryError(error) == TRUE

\* if (error.statusCode && ...): undefined and 0 are falsy
Truthy(n) == n # Undefined /\ n # 0

\* The function createRetryCondition returns.
retryCondition(error) ==
  IF error.code \in allRetryableCodes THEN TRUE
  ELSE IF Truthy(error.statusCode) /\ error.statusCode >= 500 THEN TRUE
  ELSE IF error.statusCode = 429 THEN TRUE
  ELSE IF Truthy(error.statusCode) /\ error.statusCode >= 400
            /\ error.statusCode < 500 THEN FALSE
  ELSE TRUE

\* The handler of one executeWithRetry call: the loop variable attempt, the
\* number of times fn was invoked, lastError, and what it awaits.
RetryProc(pc, id, attempt, invocations, lastError) ==
  [pc |-> pc, op |-> "executeWithRetry", id |-> id, attempt |-> attempt,
   invocations |-> invocations, lastError |-> lastError]

RetryVal(p, outcome) ==
  [attempt |-> p.attempt, invocations |-> p.invocations + 1, outcome |-> outcome]

\* executeHTTPRequest(subtask): the loop starts with attempt = 0 and awaits fn().
ExecuteWithRetry(ids) ==
  \E id \in ids :
    /\ calls < MaxRetryCalls
    /\ BagCardinality(procs) < MaxProcs
    /\ calls' = calls + 1
    /\ procs' = BagAdd(procs, RetryProc("fn", id, 0, 0, NoError))
    /\ ret' = Ret("executeWithRetry", id, TRUE)
    /\ UNCHANGED <<tasks, parent, contexts, approvals, pendingApprovals, queues,
                   stats, processingTasks, now, maxQueueSize, cache, parents,
                   slaViolations, activeProcesses>>

\* await fn() settles: a result is returned; an error the condition rejects,
\* or the error of the last attempt, is thrown; otherwise the handler sleeps.
RetryAttempt(p) ==
  /\ p.pc = "fn"
  /\ \E outcome \in FnErrors \cup {NoError} :
       IF outcome = NoError
       THEN /\ procs' = BagDel(procs, p)
            /\ ret' = RetV("executeWithRetry:returned", p.id, TRUE,
                           RetryVal(p, outcome))
       ELSE IF ~retryCondition(outcome) \/ p.attempt = RetryMaxRetries
       THEN /\ procs' = BagDel(procs, p)
            /\ ret' = RetV("executeWithRetry:thrown", p.id, FALSE,
                           RetryVal(p, outcome))
       ELSE /\ procs' = BagAdd(BagDel(procs, p),
                               [p EXCEPT !.pc = "sleep",
                                         !.invocations = @ + 1,
                                         !.lastError = outcome])
            /\ ret' = RetV("executeWithRetry:retrying", p.id, FALSE,
                           RetryVal(p, outcome))
  /\ UNCHANGED <<tasks, parent, contexts, approvals, pendingApprovals, queues,
                 stats, processingTasks, now, calls, maxQueueSize, cache, parents,
                 slaViolations, activeProcesses>>

\* await this.sleep(delay) settles: attempt++ and fn is invoked again.
RetrySleep(p) ==
  /\ p.pc = "sleep"
  /\ p.attempt + 1 <= RetryMaxRetries
  /\ procs' = BagAdd(BagDel(procs, p),
                     [p EXCEPT !.pc = "fn", !.attempt = @ + 1])
  /\ ret' = Ret("executeWithRetry:slept", p.id, TRUE)
  /\ UNCHANGED <<tasks, parent, contexts, approvals, pendingApprovals, queues,
                 stats, processingTasks, now, calls, maxQueueSize, cache, parents,
                 slaViolations, activeProcesses>>

InitRetry == InitQueue(2)

RetryCall == ExecuteWithRetry({1})

NextRetry ==
  \/ RetryCall
  \/ Step(RetryAttempt)
  \/ Step(RetrySleep)

SpecRetry == InitRetry /\ [][NextRetry]_vars

\* Every promise the handler awaits settles: the request has a timeout and
\* the sleep is a timer.
FairRetry ==
  /\ SpecRetry
  /\ WF_vars(Step(RetryAttempt))
  /\ WF_vars(Step(RetrySleep))

\* HTTP 4xx other than 429
ClientError(error) ==
  /\ error.statusCode # Undefined
  /\ error.statusCode >= 400 /\ error.statusCode < 500
  /\ error.statusCode # 429

\* 5xx, 429 and network errors
ServerOrNetworkError(error) ==
  \/ error.statusCode # Undefined /\ error.statusCode >= 500
  \/ error.statusCode = 429
  \/ error.code # "none"

RetryResults ==
  {"executeWithRetry:returned", "executeWithRetry:thrown",
   "executeWithRetry:retrying"}

(***************************************************************************)
(* C29: a call of executeWithRetry ends, and by then fn has been invoked   *)
(* at most maxRetries + 1 times.  It returns as soon as an invocation      *)
(* succeeds; it re-throws at once, with no further invocation, an HTTP 4xx *)
(* error other than 429; it re-throws the error of invocation number       *)
(* maxRetries + 1; and after a 5xx, a 429 or a network error of an         *)
(* earlier invocation it sleeps and invokes fn again.                      *)
(***************************************************************************)
C29_RetryTerminates ==
  /\ []<>(procs = EmptyBag)
  /\ [][ret'.op \in RetryResults =>
          LET v == ret'.val
              running == \E p \in BagToSet(procs') : p.id = ret'.id /\ p.pc = "sleep"
                            /\ p.invocations = v.invocations
                            /\ p.lastError = v.outcome
              ended == BagCardinality(procs') = BagCardinality(procs) - 1
          IN  /\ v.invocations <= RetryMaxRetries + 1
              /\ v.invocations = v.attempt + 1
              /\ v.outcome = NoError
                   => ret'.op = "executeWithRetry:returned" /\ ret'.ok /\ ended
              /\ (v.outcome # NoError /\ ClientError(v.outcome))
                   => ret'.op = "executeWithRetry:thrown" /\ ~ret'.ok /\ ended
              /\ (v.outcome # NoError /\ v.invocations = RetryMaxRetries + 1)
                   => ret'.op = "executeWithRetry:thrown" /\ ~ret'.ok /\ ended
              /\ (/\ v.outcome # NoError
                  /\ ServerOrNetworkError(v.outcome)
                  /\ v.invocations <= RetryMaxRetries)
                   => ret'.op = "executeWithRetry:retrying" /\ running]_vars

\* The last of maxRetries + 1 invocations failed with a retryable error,
\* which was re-thrown.
C29_Witness ==
  /\ ret.op = "executeWithRetry:thrown"
  /\ ret.val.invocations = RetryMaxRetries + 1
  /\ ServerOrNetworkError(ret.val.outcome)

\* The first invocation failed with HTTP 404, re-thrown at once.
C29_WitnessRejected ==
  /\ ret.op = "executeWithRetry:thrown"
  /\ ret.val.invocations = 1
  /\ ret.val.outcome = HttpError(404)

\* fn succeeded at the third invocation.
C29_WitnessReturned ==
  /\ ret.op = "executeWithRetry:returned"
  /\ ret.val.invocations = 3

(***************************************************************************)
(* ContextIsolation.addToConversationHistory and its caller,               *)
(* SubtaskManager.addConversationMessage.                                  *)
(***************************************************************************)
\* addToConversationHistory: the history keeps the last 50 messages.
HistoryLimit == 50

\* messages a client adds over a run
MaxHistoryCalls == 52

\* The entry pushed: role, content and the mode of the context.
HistoryEntry(context, message, role) ==
  [role |-> role, content |-> message, mode |-> context.mode]

\* slice(-n)
SliceLast(s, n) == IF Len(s) <= n THEN s ELSE SubSeq(s, Len(s) - n + 1, Len(s))

\* slice(0, n)
SliceFirst(s, n) == IF Len(s) <= n THEN s ELSE SubSeq(s, 1, n)

\* The history cut to its first entries.
addToConversationHistoryKeepsOldest(context, message, role) ==
  LET pushed == Append(context.conversationHistory,
                       HistoryEntry(context, message, role))
  IN  [context EXCEPT !.conversationHistory =
         IF Len(pushed) > HistoryLimit THEN SliceFirst(pushed, HistoryLimit)
         ELSE pushed]

\* addToConversationHistory(context, message, role)
addToConversationHistory(context, message, role) ==
  LET pushed == Append(context.conversationHistory,
                       HistoryEntry(context, message, role))
  IN  [context EXCEPT !.conversationHistory =
         IF Len(pushed) > HistoryLimit THEN SliceLast(pushed, HistoryLimit)
         ELSE pushed]

\* The handler of one addConversationMessage call.
HistoryProc(pc, id, message, role, ctx) ==
  [pc |-> pc, op |-> "addConversationMessage", id |-> id, message |-> message,
   role |-> role, ctx |-> ctx]

\* addConversationMessage(subtaskId, message, role): awaits loadTask.
AddConversationMessage(ids, messages, roles) ==
  \E id \in ids, message \in messages, role \in roles :
    /\ calls' = calls + 1
    /\ procs' = BagAdd(procs, HistoryProc("loadTask", id, message, role, NoCtx))
    /\ ret' = Ret("addConversationMessage", id, TRUE)
    /\ UNCHANGED <<tasks, parent, contexts, approvals, pendingApprovals, queues,
                   stats, processingTasks, now, maxQueueSize, cache, parents,
                   slaViolations, activeProcesses>>

\* loadTask settles: without a subtask the call throws, else it awaits
\* loadContext.
HistoryLoadTask(p) ==
  /\ p.pc = "loadTask"
  /\ IF tasks[p.id] = NoTask
     THEN /\ procs' = BagDel(procs, p)
          /\ ret' = Ret("addConversationMessage:notFound", p.id, FALSE)
     ELSE /\ procs' = BagAdd(BagDel(procs, p), [p EXCEPT !.pc = "loadContext"])
          /\ ret' = Ret("addConversationMessage:loadTask", p.id, TRUE)
  /\ UNCHANGED <<tasks, parent, contexts, approvals, pendingApprovals, queues,
                 stats, processingTasks, now, calls, maxQueueSize, cache, parents,
                 slaViolations, activeProcesses>>

\* loadContext settles: the message is added to the loaded copy, which is
\* handed to saveContext.
HistoryLoadContext(p) ==
  /\ p.pc = "loadContext"
  /\ procs' = BagAdd(BagDel(procs, p),
                     [p EXCEPT !.pc = "saveContext",
                               !.ctx = addToConversationHistory(contexts[p.id],
                                                                p.message, p.role)])
  /\ ret' = Ret("addConversationMessage:loadContext", p.id, TRUE)
  /\ UNCHANGED <<tasks, parent, contexts, approvals, pendingApprovals, queues,
                 stats, processingTasks, now, calls, maxQueueSize, cache, parents,
                 slaViolations, activeProcesses>>

\* saveContext lands; the call returns the last entry of the history.
HistorySave(p) ==
  /\ p.pc = "saveContext"
  /\ contexts' = [contexts EXCEPT ![p.id] = p.ctx]
  /\ procs' = BagDel(procs, p)
  /\ ret' = RetV("addConversationMessage:done", p.id, TRUE,
                 p.ctx.conversationHistory[Len(p.ctx.conversationHistory)])
  /\ UNCHANGED <<tasks, parent, approvals, pendingApprovals, queues,
                 stats, processingTasks, now, calls, maxQueueSize, cache, parents,
                 slaViolations, activeProcesses>>

InitHistory == InitQueue(2)

\* A client adds messages to the context of subtask 1 one after another;
\* the message is numbered by the call.
HistoryCall ==
  /\ calls < MaxHistoryCalls
  /\ procs = EmptyBag
  /\ AddConversationMessage({1}, {calls + 1}, {"assistant"})

NextHistory ==
  \/ HistoryCall
  \/ Step(HistoryLoadTask)
  \/ Step(HistoryLoadContext)
  \/ Step(HistorySave)

SpecHistory == InitHistory /\ [][NextHistory]_vars

\* The number of messages added to the context of subtask 1 so far.
MessagesAdded == calls - BagCardinality(procs)

MostRecent == IF MessagesAdded < HistoryLimit THEN MessagesAdded ELSE HistoryLimit

(***************************************************************************)
(* C30: after n messages have been added to a context one after another,   *)
(* its conversationHistory has min(n, 50) entries, at most 50, and they    *)
(* are the last min(n, 50) messages added, in the order they were added.   *)
(***************************************************************************)
C30_HistoryWindow ==
  LET h == contexts[1].conversationHistory
  IN  /\ Len(h) <= HistoryLimit
      /\ Len(h) = MostRecent
      /\ \A i \in 1..Len(h) : h[i].content = MessagesAdded - MostRecent + i

\* More than 50 messages have been added: the oldest are gone.
C30_Witness ==
  /\ procs = EmptyBag
  /\ MessagesAdded > HistoryLimit
  /\ Len(contexts[1].conversationHistory) = HistoryLimit
  /\ contexts[1].conversationHistory[1].content = MessagesAdded - HistoryLimit + 1
  /\ ret.op = "addConversationMessage:done"
  /\ ret.val.content = MessagesAdded

(***************************************************************************)
(* The worker's timer: every second a tick runs the loop, whether or not   *)
(* it finds anything to dispatch.                                          *)
(***************************************************************************)
\* enqueueSubtask calls made by clients, timer specification
MaxTickEnqueues == 2

\* startQueueProcessor: a tick whose loop dispatches nothing, because the
\* executing set holds the limit or the queue is empty.
TickIdle ==
  /\ workerLoop(queues, processingTasks, <<>>, slaViolations)[2] = <<>>
  /\ queues' = workerLoop(queues, processingTasks, <<>>, slaViolations)[1]
  /\ slaViolations' = workerLoop(queues, processingTasks, <<>>, slaViolations)[3]
  /\ ret' = Ret("tick", 0, TRUE)
  /\ UNCHANGED <<tasks, parent, contexts, approvals, pendingApprovals, stats,
                 processingTasks, procs, now, calls, maxQueueSize, cache, parents,
                 activeProcesses>>

InitTick == InitQueue(2)

TickEnqueue ==
  /\ calls < MaxTickEnqueues
  /\ EnqueueSubtask({1, NumSubtasks}, {"high", "low"}, {"real"})

NextTick ==
  \/ TickEnqueue
  \/ WorkerTick
  \/ TickIdle
  \/ Step(QueuedLoad)
  \/ Step(SaveExecuting)
  \/ Step(ExecuteTask)
  \/ Step(SaveCompleted)
  \/ Step(SaveContext)
  \/ Step(SaveFailed)

SpecTick == InitTick /\ [][NextTick]_vars

\* The timer keeps firing and every promise a handler awaits settles.
FairTick ==
  /\ SpecTick
  /\ WF_vars(WorkerTick)
  /\ WF_vars(Step(QueuedLoad))
  /\ WF_vars(Step(SaveExecuting))
  /\ WF_vars(Step(ExecuteTask))
  /\ WF_vars(Step(SaveCompleted))
  /\ WF_vars(Step(SaveContext))
  /\ WF_vars(Step(SaveFailed))

\* The entries a step took out of the queue, tier by tier from the head.
Dispatched(qs, left) ==
  \A t \in Priorities :
    /\ Len(left[t]) <= Len(qs[t])
    /\ left[t] = SubSeq(qs[t], Len(qs[t]) - Len(left[t]) + 1, Len(qs[t]))

HandedOver(q, before, after) ==
  CopiesIn(QueuedProc(q), after) > CopiesIn(QueuedProc(q), before)

(***************************************************************************)
(* C31: while the timer keeps firing and every execution ends, every entry *)
(* of the queue, with no cancellation, clearing or expiry, leaves the      *)
(* queue, and an entry leaves it only in a tick that hands it to           *)
(* processQueuedTask; a tick that finds the executing set at the limit     *)
(* dequeues nothing and leaves the queue as it was.                        *)
(***************************************************************************)
C31_EventuallyDispatched ==
  /\ \A id \in SubIds : HasEntry(queues, id) ~> ~HasEntry(queues, id)
  /\ [][\A t \in Priorities : \A i \in 1..Len(queues[t]) :
          ~InQueue(queues', queues[t][i])
            => /\ ret'.op = "tick"
               /\ Dispatched(queues, queues')
               /\ HandedOver(queues[t][i], procs, procs')]_vars
  /\ [][(ret'.op = "tick" /\ Cardinality(processingTasks) >= maxConcurrent)
          => /\ queues' = queues
             /\ procs' = procs
             /\ ret'.id = 0]_vars

\* A tick found the executing set at the limit while an entry was waiting.
C31_Witness ==
  /\ ret.op = "tick"
  /\ ret.id = 0
  /\ Cardinality(processingTasks) >= maxConcurrent
  /\ getTotalSize(queues) > 0

\* A tick has handed an entry to processQueuedTask.
C31_WitnessDispatched ==
  /\ ret.op = "tick"
  /\ ret.id > 0
  /\ \E p \in BagToSet(procs) : p.op = "processQueuedTask" /\ p.pc = "loadTask"

(***************************************************************************)
(* C32: of the processApproval calls on one pending approval request that  *)
(* overlap, at most one gets past the pending check and goes on to write   *)
(* its decision; the others throw.                                         *)
(***************************************************************************)
DecidingPcs == {"saveApprovalDecision", "approvalLoadTask", "approvalSaveTask"}

Deciding(a) == {p \in BagToSet(procs) : p.pc \in DecidingPcs /\ p.aid = a}

C32_AtMostOneSucceeds ==
  \A a \in ApprIds :
    /\ Cardinality(Deciding(a)) <= 1
    /\ \A p \in Deciding(a) : CopiesIn(p, procs) = 1

(***************************************************************************)
(* C33: the executing set (processingTasks) holds as many ids as there are *)
(* processSubtask runs in flight: no subtask id is being processed by two  *)
(* runs at once.                                                           *)
(***************************************************************************)
ProcessSubtaskPcs ==
  {"saveExecuting", "executeTask", "saveCompleted", "saveContext", "saveFailed"}

RunsInFlight ==
  BagCardinality([p \in {r \in BagToSet(procs) : r.pc \in ProcessSubtaskPcs}
                    |-> procs[p]])

C33_OneRunPerId == Cardinality(processingTasks) = RunsInFlight

(***************************************************************************)
(* Subtasks that go through auto-approval at creation while clients change *)
(* modes to architect.                                                     *)
(***************************************************************************)
ArchitectCreate ==
  CreateSubtask({"code"}, {"low"}, {"testing"}, {DefaultEst}, {TRUE}, {NoRules})

NextArchitect ==
  \/ ArchitectCreate
  \/ ChangeSubtaskMode(SubIds, {"architect"})
  \/ Step(CreateSaveTask)
  \/ Step(CreateSaveContext)
  \/ Step(CreateSaveParent)
  \/ Step(AutoApproveLoad)
  \/ Step(SaveApprovalRequest)
  \/ Step(LoadApprovalRequest)
  \/ Step(SaveApprovalDecision)
  \/ Step(ApprovalLoadTask)
  \/ Step(ApprovalSaveTask)
  \/ Step(ChangeSaveTask)
  \/ Step(ChangeSaveContext)

SpecArchitect == InitLife /\ [][NextArchitect]_vars

(***************************************************************************)
(* C34: no stored subtask in architect mode has status approved by the     *)
(* auto-approval system: an approved architect subtask was approved by a   *)
(* manual decision.                                                        *)
(***************************************************************************)
C34_NoAutoApprovedArchitect ==
  \A i \in SubIds :
    (tasks[i].mode = "architect" /\ tasks[i].status = "approved")
      => \A a \in RequestsOf(i) : approvals[a].approvedBy # "auto-approval-system"

(***************************************************************************)
(* SubtaskManager.approveSubtask and rejectSubtask: the id the caller      *)
(* gives is handed to processApproval as the approval id.                  *)
(***************************************************************************)
\* approveSubtask(subtaskId, approvedBy) / rejectSubtask(subtaskId, rejectedBy):
\* processApproval(subtaskId, decision, ...), whose loadApprovalRequest finds
\* a request only under the id of an approval request.
ApproveSubtask(ids, decisions) ==
  \E subtaskId \in ids, d \in decisions :
    IF subtaskId.approval = 0
    THEN /\ ret' = Ret("approveSubtask", subtaskId.task, FALSE)
         /\ UNCHANGED <<tasks, parent, contexts, approvals, pendingApprovals,
                        queues, maxQueueSize, stats, processingTasks, procs,
                        now, calls, cache, parents, slaViolations,
                        activeProcesses>>
    ELSE /\ BagCardinality(procs) < MaxProcs
         /\ ProcessApprovalLoaded(procs,
              Proc("call", "processApproval", 0, NoQ, NoTask, NoParent, NoAppr,
                   0, "none", NoRules),
              subtaskId.approval, d, "manual")

ApproveSubtaskCall == ApproveSubtask(BulkIds, {"approved", "rejected"})

NextManual ==
  \/ ApproveSubtaskCall
  \/ ChangeSubtaskMode(SubIds, {"docs"})
  \/ Step(SaveApprovalDecision)
  \/ Step(ApprovalLoadTask)
  \/ Step(ApprovalSaveTask)
  \/ Step(ChangeSaveTask)
  \/ Step(ChangeSaveContext)

SpecManual == InitStored /\ [][NextManual]_vars

PendingRequestsOf(subtaskId) ==
  {a \in RequestsOf(subtaskId) : approvals[a].status = "pending"}

(***************************************************************************)
(* C35: approveSubtask(subtaskId) or rejectSubtask(subtaskId), called with *)
(* the id of a subtask that has exactly one pending approval request, does *)
(* not throw: it goes on to decide that request.                           *)
(***************************************************************************)
C35_ApproveBySubtaskId ==
  [][(/\ ret'.op = "approveSubtask"
      /\ ret'.id \in SubIds
      /\ Cardinality(PendingRequestsOf(ret'.id)) = 1)
       => ret'.ok]_vars

(***************************************************************************)
(* C36: in the stored context no key that sanitizePassedData matches as    *)
(* sensitive holds the value it was passed with, neither in passedData nor *)
(* in downwardContext.explicitData, at any depth.                          *)
(***************************************************************************)
RECURSIVE NoRawSecret(_)
NoRawSecret(obj) ==
  \A i \in 1..Len(obj) :
    IF IsSensitiveKey(obj[i].key) THEN obj[i].value = REDACTED
    ELSE obj[i].value.type = "object" => NoRawSecret(obj[i].value.entries)

C36_NoRawSecretStored ==
  ret.op = "createIsolatedContext"
    => /\ NoRawSecret(ret.val.passedData)
       /\ NoRawSecret(ret.val.explicitData)

(***************************************************************************)
(* Messages are added to the context of subtask 1 while clients change its *)
(* mode.                                                                   *)
(***************************************************************************)
\* The mode is changed between two messages, with no call in flight.
HistoryModeChange ==
  /\ procs = EmptyBag
  /\ ChangeSubtaskMode({1}, {"docs", "debug"})

NextHistoryMode ==
  \/ HistoryCall
  \/ HistoryModeChange
  \/ Step(HistoryLoadTask)
  \/ Step(HistoryLoadContext)
  \/ Step(HistorySave)
  \/ Step(ChangeSaveTask)
  \/ Step(ChangeSaveContext)

SpecHistoryMode == InitHistory /\ [][NextHistoryMode]_vars

(***************************************************************************)
(* C37: the saveContext of changeSubtaskMode changes the mode of the       *)
(* stored context and nothing else: its conversationHistory, status,       *)
(* results and summary are what they were.                                 *)
(***************************************************************************)
C37_ModeChangeFrame ==
  [][ret'.op = "changeSubtaskMode:done"
       => /\ contexts'[ret'.id].conversationHistory
               = contexts[ret'.id].conversationHistory
          /\ contexts'[ret'.id].status = contexts[ret'.id].status
          /\ contexts'[ret'.id].hasResults = contexts[ret'.id].hasResults
          /\ contexts'[ret'.id].hasSummary = contexts[ret'.id].hasSummary]_vars

(***************************************************************************)
(* C38: when removeTask(id) has returned an entry, no entry with that id   *)
(* is left in any tier of the queue.                                       *)
(***************************************************************************)
C38_CancelRemovesId ==
  [][(ret'.op = "removeTask" /\ ret'.ok) => ~HasEntry(queues', ret'.id)]_vars

(***************************************************************************)
(* ApprovalSystem.getPendingApprovals while requests are created for the   *)
(* stored subtasks and decided.                                            *)
(***************************************************************************)
\* getPendingApprovals(): the values of the pendingApprovals map.
getPendingApprovals == {pendingApprovals[i] : i \in SubIds} \ {0}

\* A client asks for approval of a stored subtask: autoApprove(subtaskId, rules).
PendingRequest == AutoApprove(SubIds, {PermissiveOptions, autoApprovalRules(NoRules)})

NextPending ==
  \/ PendingRequest
  \/ ProcessApproval
  \/ Step(SaveApprovalRequest)
  \/ Step(LoadApprovalRequest)
  \/ Step(SaveApprovalDecision)
  \/ Step(ApprovalLoadTask)
  \/ Step(ApprovalSaveTask)

SpecPending == InitStored /\ [][NextPending]_vars

(***************************************************************************)
(* C39: getPendingApprovals returns exactly the approval requests whose    *)
(* stored status is pending.                                               *)
(***************************************************************************)
C39_PendingExact ==
  getPendingApprovals = {a \in ApprIds : approvals[a].status = "pending"}

(***************************************************************************)
(* Overlapping analyses: a client calls analyzeTask again before the       *)
(* earlier call's saveTask has landed.  The clock stands still, so no      *)
(* cache entry expires.                                                    *)
(***************************************************************************)
OverlapCall ==
  /\ calls < MaxAnalyzeCalls
  /\ AnalyzeTask(CacheDescriptions, CacheContexts)

NextOverlap ==
  \/ OverlapCall
  \/ Step(AnalyzeSaveTask)

SpecOverlap == InitEmpty /\ [][NextOverlap]_vars

\* The fingerprint analyzeTask looks a parent task up by.
Fingerprint(task) == createCacheKey(task.description, task.projectContext)

(***************************************************************************)
(* C40: when two analyzeTask calls with the same fingerprint overlap, only *)
(* one parent task is persisted: no two persisted parent tasks have the    *)
(* same fingerprint, and a call that returns while the cache entry is live *)
(* returns the id of the one persisted parent task of its fingerprint.     *)
(***************************************************************************)
C40_OneParentPerFingerprint ==
  /\ \A i, j \in 1..Len(parents) :
       Fingerprint(parents[i]) = Fingerprint(parents[j]) => i = j
  /\ ret.op = "analyzeTask" =>
       \A i \in 1..Len(parents) :
         Fingerprint(parents[i]) = Fingerprint(ret.val.task) =>
           parents[i].id = ret.id

====
